---- MODULE Spec2Model ----
(***************************************************************************)
(* A model of the restaurant forecast MCP server: the inventory seeding    *)
(* simulation (scripts/seed.js), the check_inventory tool                  *)
(* (tools/inventory.js), the get_sales_analytics tool (tools/analytics.js),*)
(* the forecast_demand tool (tools/forecast.js) and the error boundary of  *)
(* the five tool handlers.                                                 *)
(*                                                                         *)
(* Numbers.  A JavaScript Number is modelled as a fixed-point integer.     *)
(*   quantity, stock : ticks of 1/200 unit   (Units(n) is n whole units)   *)
(*   price           : cents                                               *)
(*   money           : price * quantity, ticks of 1/20000 dollar           *)
(* so Math.round(x * 100) / 100 is a real rounding on both scales.         *)
(* Dates are day numbers (the sales data has date-only granularity).       *)
(***************************************************************************)
EXTENDS Integers, Sequences, FiniteSets, TLC

VARIABLES
    sales,          \* the Sale collection: a sequence of sale documents
    products,       \* the Product collection: name -> product document
    inventory,      \* the Inventory collection: a set of snapshot documents
    atMidnight,     \* TRUE when the request's "now" has time-of-day 00:00
    seedPc,         \* position of seedInventory()
    salesByDay,     \* seedInventory: the aggregation's result
    inventoryDocs,  \* seedInventory: the documents built by the simulation
    clsIn,          \* the classifier's inputs: stock and thresholds
    clsOut,         \* status computed by each of the two classifiers
    chkPc,          \* position of handleCheckInventory()
    chkReq,         \* handleCheckInventory: the `product` parameter
    productDocs,    \* handleCheckInventory: productDocs
    latestInventory,\* handleCheckInventory: latestInventory
    rows,           \* handleCheckInventory: the product rows computed so far
    chkResult,      \* handleCheckInventory: the returned payload
    anPc,           \* position of handleGetSalesAnalytics()
    anReq,          \* handleGetSalesAnalytics: analysis_type and days
    anResult,       \* handleGetSalesAnalytics: the returned payload
    anLog,          \* the latest successful response of each analysis type
    fcPc,           \* position of handleForecastDemand()
    fcReq,          \* handleForecastDemand: product and days_ahead
    timeout,        \* callMLService: the setTimeout that aborts the controller
    fetchSt,        \* callMLService: the state of the two fetch() promises
    forecastData,   \* callMLService: await forecastRes.json()
    profitData,     \* callMLService: await profitRes.json()
    mlResult,       \* handleForecastDemand: what callMLService returned
    fcResult,       \* handleForecastDemand: the returned payload
    pfPc,           \* position of handleCalculateProfit()
    pfReq,          \* handleCalculateProfit: product, days, include_trend, group_by
    costMap,        \* handleCalculateProfit: costMap
    breakdown,      \* handleCalculateProfit: breakdown
    pfResult,       \* handleCalculateProfit: the returned payload
    festivals,      \* the Festival collection (the cache of public holidays)
    inLastQuarter,  \* now.getMonth() >= 9
    fsPc,           \* position of handleGetUpcomingFestivals()
    fsReq,          \* handleGetUpcomingFestivals: days_ahead and country_code
    cacheFresh,     \* handleGetUpcomingFestivals: cacheFresh
    fsYear,         \* syncFestivalsToCache: 0 for currentYear, 1 for currentYear + 1
    holidays,       \* syncFestivalsToCache: the holidays still to upsert
    fsResult,       \* handleGetUpcomingFestivals: the returned payload
    nagerLog,       \* the years this call has requested of the Nager API
    fsOther         \* the locals of a second handleGetUpcomingFestivals call in
                    \* progress, suspended at an await

storeVars == <<sales, products, inventory, atMidnight>>
seedVars  == <<seedPc, salesByDay, inventoryDocs>>
clsVars   == <<clsIn, clsOut>>
chkVars   == <<chkPc, chkReq, productDocs, latestInventory, rows, chkResult>>
anVars    == <<anPc, anReq, anResult, anLog>>
pfVars    == <<pfPc, pfReq, costMap, breakdown, pfResult>>
fsVars    == <<festivals, inLastQuarter, fsPc, fsReq, cacheFresh, fsYear, holidays,
               fsResult, nagerLog, fsOther>>
fcVars    == <<fcPc, fcReq, timeout, fetchSt, forecastData, profitData,
               mlResult, fcResult>>

-----------------------------------------------------------------------------
(* Bounds of the model *)

MaxSales == 3       \* sale documents in the collection
MaxLevel == 4       \* classifier inputs range over 0 .. MaxLevel units

-----------------------------------------------------------------------------
(* JavaScript arithmetic *)

\* n whole units as ticks
Units(n) == n * 200

\* Math.round(p / q) for q > 0: the nearest integer, a half rounded up
MathRound(p, q) == (2 * p + q) \div (2 * q)

\* Math.round(x * 100) / 100 on a quantity (ticks of 1/200): nearest 1/100
Round2(x) == 2 * MathRound(x, 2)

\* thresholds.field || 0: a missing field reads as undefined, and 0 || 0 is 0
OrZero(thresholds, field) ==
    IF field \in DOMAIN thresholds THEN thresholds[field] ELSE 0

RECURSIVE SumSeq(_)
SumSeq(s) == IF s = <<>> THEN 0 ELSE Head(s) + SumSeq(Tail(s))

RECURSIVE SumOver(_, _)
\* the sum of f[x] over the finite set S
SumOver(f, S) ==
    IF S = {} THEN 0
    ELSE LET x == CHOOSE y \in S : TRUE
         IN  f[x] + SumOver(f, S \ {x})

Range(s) == {s[i] : i \in DOMAIN s}

-----------------------------------------------------------------------------
(* The store *)

Today == 7 * 6      \* the day number of "now"

ProductNames == {"Burgers", "Fries"}

\* $group by (product, day) with $sum of quantity, over the whole collection
SaleIdx(p, d) == {i \in DOMAIN sales : sales[i].product = p /\ sales[i].date = d}

GroupKeys == {<<sales[i].product, sales[i].date>> : i \in DOMAIN sales}

TotalQuantity(p, d) ==
    SumOver([i \in SaleIdx(p, d) |-> sales[i].quantity], SaleIdx(p, d))

Groups ==
    {[product |-> k[1], date |-> k[2], totalQuantity |-> TotalQuantity(k[1], k[2])]
        : k \in GroupKeys}

\* $sort {"_id.date": 1}: ascending by date, documents of one date in any order
SortedByDate(G) ==
    {s \in [1 .. Cardinality(G) -> G] :
        /\ \A i, j \in DOMAIN s : i # j => s[i] # s[j]
        /\ \A i, j \in DOMAIN s : i < j => s[i].date <= s[j].date}

-----------------------------------------------------------------------------
(* The status classifier, as written in each of its two callers *)

SeedStatusLe(stock, minStockDaily, reorderPoint) ==
    IF stock <= minStockDaily THEN "red"
    ELSE IF stock <= reorderPoint THEN "yellow"
    ELSE "green"

\* seed.js: let status = "green"; if (stock < min) red; else if (stock < reorder) yellow
SeedStatus(stock, minStockDaily, reorderPoint) ==
    IF stock < minStockDaily THEN "red"
    ELSE IF stock < reorderPoint THEN "yellow"
    ELSE "green"

CheckStatusLe(stockLevel, thresholds) ==
    IF stockLevel <= OrZero(thresholds, "minStockDaily") THEN "red"
    ELSE IF stockLevel <= OrZero(thresholds, "reorderPoint") THEN "yellow"
    ELSE "green"

\* inventory.js: if (stockLevel < (thresholds.minStockDaily || 0)) red; ...
CheckStatus(stockLevel, thresholds) ==
    IF stockLevel < OrZero(thresholds, "minStockDaily") THEN "red"
    ELSE IF stockLevel < OrZero(thresholds, "reorderPoint") THEN "yellow"
    ELSE "green"

-----------------------------------------------------------------------------
(* seedInventory: the simulation *)

\* productDays[p]: the entries of salesByDay for product p, in salesByDay's order
RECURSIVE ProductDays(_, _)
ProductDays(byDay, p) ==
    IF byDay = <<>> THEN <<>>
    ELSE LET e == Head(byDay)
             rest == ProductDays(Tail(byDay), p)
         IN  IF e.product = p
             THEN <<[date |-> e.date, consumed |-> e.totalQuantity]>> \o rest
             ELSE rest

\* Object.entries(productDays): the products in order of first appearance
RECURSIVE ProductOrder(_, _)
ProductOrder(byDay, seen) ==
    IF byDay = <<>> THEN <<>>
    ELSE IF Head(byDay).product \in seen THEN ProductOrder(Tail(byDay), seen)
    ELSE <<Head(byDay).product>>
            \o ProductOrder(Tail(byDay), seen \cup {Head(byDay).product})

RestockNeededLe(stock, reorderPoint) == stock <= reorderPoint

\* if (stock < reorderPoint)
RestockNeeded(stock, reorderPoint) == stock < reorderPoint

StockAfterRestockKept(stock, reorderPoint, maxStockDaily) == stock

\* if (stock < reorderPoint) { ...; stock = maxStockDaily; }
StockAfterRestock(stock, reorderPoint, maxStockDaily) ==
    IF RestockNeeded(stock, reorderPoint) THEN maxStockDaily ELSE stock

RestockedToReorder(stock, reorderPoint, maxStockDaily) ==
    IF RestockNeeded(stock, reorderPoint) THEN reorderPoint - stock ELSE 0

\* let restocked = 0; if (stock < reorderPoint) restocked = maxStockDaily - stock
Restocked(stock, reorderPoint, maxStockDaily) ==
    IF RestockNeeded(stock, reorderPoint) THEN maxStockDaily - stock ELSE 0

\* the body of `for (const day of days)`: the snapshots of one product, given the
\* running stock before the first of the days
RECURSIVE SimulateDays(_, _, _)
SimulateDays(productName, days, stock) ==
    IF days = <<>> THEN <<>>
    ELSE LET inv == products[productName].inventory
             day == Head(days)
             afterSale == stock - day.consumed
             restocked == Restocked(afterSale, inv.reorderPoint, inv.maxStockDaily)
             newStock == StockAfterRestock(afterSale, inv.reorderPoint,
                                           inv.maxStockDaily)
             doc == [product |-> productName,
                     date |-> day.date,
                     stockLevel |-> Round2(newStock),
                     consumed |-> Round2(day.consumed),
                     restocked |-> Round2(restocked),
                     status |-> SeedStatus(newStock, inv.minStockDaily,
                                           inv.reorderPoint)]
         IN  <<doc>> \o SimulateDays(productName, Tail(days), newStock)

\* the body of `for (const [productName, days] of Object.entries(productDays))`
RECURSIVE SimulateProducts(_, _)
SimulateProducts(order, byDay) ==
    IF order = <<>> THEN <<>>
    ELSE LET p == Head(order)
             rest == SimulateProducts(Tail(order), byDay)
         IN  IF p \notin DOMAIN products THEN rest      \* if (!pConfig) continue
             ELSE SimulateDays(p, ProductDays(byDay, p),
                               products[p].inventory.maxStockDaily) \o rest

DeleteNone(collection) == collection

\* Inventory.deleteMany({})
DeleteMany(collection) == {}

\* Inventory.insertMany(docs, { ordered: false }) under the unique index on
\* (product, date): every document whose key the collection does not hold
InsertMany(collection, docs) ==
    collection \cup
        {d \in Range(docs) :
            \A e \in collection : ~(e.product = d.product /\ e.date = d.date)}

\* await Sale.aggregate([...$group, $sort])
SeedAggregate ==
    /\ seedPc = "start"
    /\ \E s \in SortedByDate(Groups) : salesByDay' = s
    /\ seedPc' = "aggregated"
    /\ UNCHANGED <<pfVars, fsVars, fcVars, anVars, storeVars, inventoryDocs, clsVars, chkVars>>

\* lines 301-378, then await Inventory.deleteMany({})
SeedSimulateAndDelete ==
    /\ seedPc = "aggregated"
    /\ inventoryDocs' = SimulateProducts(ProductOrder(salesByDay, {}), salesByDay)
    /\ inventory' = DeleteMany(inventory)
    /\ seedPc' = "deleted"
    /\ UNCHANGED <<pfVars, fsVars, fcVars, anVars, sales, products, atMidnight, salesByDay, clsVars, chkVars>>

\* await Inventory.insertMany(inventoryDocs, { ordered: false })
SeedInsert ==
    /\ seedPc = "deleted"
    /\ inventory' = InsertMany(inventory, inventoryDocs)
    /\ seedPc' = "done"
    /\ UNCHANGED <<pfVars, fsVars, fcVars, anVars, sales, products, atMidnight, salesByDay, inventoryDocs, clsVars, chkVars>>

\* a re-run of the seed script
SeedRerun ==
    /\ seedPc = "done"
    /\ seedPc' = "start"
    /\ salesByDay' = <<>>
    /\ inventoryDocs' = <<>>
    /\ UNCHANGED <<pfVars, fsVars, fcVars, anVars, storeVars, clsVars, chkVars>>

SeedIdle == seedPc = "idle" /\ salesByDay = <<>> /\ inventoryDocs = <<>>

-----------------------------------------------------------------------------
(* The two classifiers applied to one input *)

\* the status line of seedInventory on (stock, thresholds)
ClassifySeed ==
    /\ clsOut.seed = "none"
    /\ clsOut' = [clsOut EXCEPT !.seed =
            SeedStatus(clsIn.stock, clsIn.minStockDaily, clsIn.reorderPoint)]
    /\ UNCHANGED <<pfVars, fsVars, fcVars, anVars, storeVars, seedVars, clsIn, chkVars>>

\* the status line of handleCheckInventory on (stock, thresholds)
ClassifyCheck ==
    /\ clsOut.check = "none"
    /\ clsOut' = [clsOut EXCEPT !.check = CheckStatus(clsIn.stock, clsIn)]
    /\ UNCHANGED <<pfVars, fsVars, fcVars, anVars, storeVars, seedVars, clsIn, chkVars>>

ClsIdle ==
    /\ clsIn = [stock |-> 0, minStockDaily |-> 0, reorderPoint |-> 0]
    /\ clsOut = [seed |-> "off", check |-> "off"]

-----------------------------------------------------------------------------
(* check_inventory *)

LookbackDays == 30

\* { date: { $gte: startDate } } with startDate = now - lookbackDays days: a sale
\* dated (at 00:00) exactly lookbackDays days back matches only at midnight
InLookback(date, lookbackDays) ==
    IF atMidnight THEN date >= Today - lookbackDays ELSE date > Today - lookbackDays

\* the $match stage of getAvgDailyConsumption
ConsumptionMatch(productName, lookbackDays) ==
    {i \in DOMAIN sales :
        sales[i].product = productName /\ InLookback(sales[i].date, lookbackDays)}

AvgOverLookback(totalQty, dayCount, lookbackDays) ==
    Units(MathRound(totalQty, Units(lookbackDays)))

\* Math.round(result[0].totalQty / result[0].dayCount.length)
AvgOverDays(totalQty, dayCount, lookbackDays) ==
    Units(MathRound(totalQty, Units(Cardinality(dayCount))))

\* getAvgDailyConsumption(productName, lookbackDays = 30)
GetAvgDailyConsumption(productName, lookbackDays) ==
    LET matched == ConsumptionMatch(productName, lookbackDays)
        totalQty == SumOver([i \in matched |-> sales[i].quantity], matched)
        dayCount == {sales[i].date : i \in matched}         \* $addToSet: "$date"
    IN  IF matched = {} \/ dayCount = {} THEN 0
        ELSE AvgOverDays(totalQty, dayCount, lookbackDays)

\* getLatestInventory(productFilter): per product the snapshot of the latest date
GetLatestInventory(productFilter) ==
    LET matched == {d \in inventory :
                       productFilter = "null" \/ d.product = productFilter}
        names == {d.product : d \in matched}
    IN  [p \in names |->
            CHOOSE d \in matched :
                /\ d.product = p
                /\ \A e \in matched : e.product = p => e.date <= d.date]

\* Product.find(...).lean(): the documents, in the collection's order
FindProducts(productFilter) ==
    LET all == <<"Burgers", "Fries">>
        hit(n) == n \in DOMAIN products /\ (productFilter = "null" \/ n = productFilter)
    IN  SelectSeq(all, hit)

DaysUntilStockoutUncapped(stockLevel, avgDaily) ==
    IF avgDaily > 0 THEN MathRound(stockLevel, avgDaily) ELSE 999

\* avgDaily > 0 ? Math.round(stockLevel / avgDaily) : 999, then Math.min(., 999)
DaysUntilStockout(stockLevel, avgDaily) ==
    LET daysUntilStockout == IF avgDaily > 0 THEN MathRound(stockLevel, avgDaily)
                             ELSE 999
    IN  IF daysUntilStockout < 999 THEN daysUntilStockout ELSE 999

ProductRowAfterSiblings(name, latest) ==
    [product |-> name,
     stock_level |-> IF name \in DOMAIN latest THEN latest[name].stockLevel ELSE 0,
     status |-> CheckStatus(Units(Cardinality(DOMAIN rows)), products[name].inventory),
     avg_daily_consumption |-> Cardinality(DOMAIN rows),
     days_until_stockout |-> 999,
     min_stock |-> 0, reorder_point |-> 0, max_stock |-> 0,
     restock_recommendation |-> 0, last_updated |-> -1]

\* the async callback of productDocs.map: the row of one product
ProductRow(name, latest) ==
    LET prod == products[name]
        hasInv == name \in DOMAIN latest
        stockLevel == IF hasInv THEN latest[name].stockLevel ELSE 0
        avgDaily == GetAvgDailyConsumption(name, LookbackDays)
        thresholds == prod.inventory
        maxStock == IF OrZero(thresholds, "maxStockDaily") # 0
                    THEN thresholds.maxStockDaily ELSE stockLevel * 2
        restockQty == IF maxStock - stockLevel > 0 THEN maxStock - stockLevel ELSE 0
    IN  [product |-> name,
         stock_level |-> stockLevel,
         status |-> CheckStatus(stockLevel, thresholds),
         avg_daily_consumption |-> avgDaily,
         days_until_stockout |-> DaysUntilStockout(stockLevel, avgDaily),
         min_stock |-> OrZero(thresholds, "minStockDaily"),
         reorder_point |-> OrZero(thresholds, "reorderPoint"),
         max_stock |-> maxStock,
         restock_recommendation |-> restockQty,
         last_updated |-> IF hasInv THEN latest[name].date ELSE -1]   \* "N/A"

AlertsUnmarked(results) ==
    SelectSeq(results, LAMBDA r : r.status # "green")

\* alerts.length > 0 ? alerts : ["All products are well-stocked"]
Alerts(results) ==
    LET alerts == SelectSeq(results, LAMBDA r : r.status # "green")
    IN  IF Len(alerts) > 0 THEN alerts
        ELSE <<[product |-> "none", status |-> "well-stocked"]>>

CountStatus(results, status) ==
    Len(SelectSeq(results, LAMBDA r : r.status = status))

SummaryOfStocked(results) ==
    LET stocked == SelectSeq(results, LAMBDA r : r.last_updated # -1)
    IN  [total_products |-> Len(stocked),
         green |-> CountStatus(stocked, "green"),
         yellow |-> CountStatus(stocked, "yellow"),
         red |-> CountStatus(stocked, "red"),
         alerts |-> Alerts(stocked)]

\* Step 4: the summary
Summary(results) ==
    [total_products |-> Len(results),
     green |-> CountStatus(results, "green"),
     yellow |-> CountStatus(results, "yellow"),
     red |-> CountStatus(results, "red"),
     alerts |-> Alerts(results)]

ProductFilter == IF chkReq \in {"all", "undefined"} THEN "null" ELSE chkReq

NoResult == [isError |-> FALSE, kind |-> "none"]

\* await Product.find(...); if (!productDocs.length) return the not-found error
CheckFindProducts ==
    /\ chkPc = "start"
    /\ productDocs' = FindProducts(ProductFilter)
    /\ IF productDocs' = <<>>
       THEN /\ chkResult' = [isError |-> TRUE, kind |-> "not-found"]
            /\ chkPc' = "done"
       ELSE /\ chkResult' = chkResult
            /\ chkPc' = "latest"
    /\ UNCHANGED <<pfVars, fsVars, fcVars, anVars, storeVars, seedVars, clsVars, chkReq, latestInventory, rows>>

\* await getLatestInventory(productFilter); then productDocs.map starts every
\* callback, each of which runs to its await getAvgDailyConsumption
CheckGetLatest ==
    /\ chkPc = "latest"
    /\ latestInventory' = GetLatestInventory(ProductFilter)
    /\ chkPc' = "rows"
    /\ UNCHANGED <<pfVars, fsVars, fcVars, anVars, storeVars, seedVars, clsVars, chkReq, productDocs, rows, chkResult>>

\* one callback resumes with its consumption query's result and returns its row
CheckProductRow(name) ==
    /\ chkPc = "rows"
    /\ name \in Range(productDocs)
    /\ name \notin DOMAIN rows
    /\ rows' = [n \in DOMAIN rows \cup {name} |->
                   IF n = name THEN ProductRow(name, latestInventory) ELSE rows[n]]
    /\ UNCHANGED <<pfVars, fsVars, fcVars, anVars, storeVars, seedVars, clsVars, chkPc, chkReq, productDocs,
                   latestInventory, chkResult>>

\* Promise.all resolves; Step 4 builds the summary and the handler returns
CheckSummarise ==
    /\ chkPc = "rows"
    /\ DOMAIN rows = Range(productDocs)
    /\ LET results == [i \in DOMAIN productDocs |-> rows[productDocs[i]]]
       IN  chkResult' = [isError |-> FALSE, kind |-> "inventory",
                         products |-> results, summary |-> Summary(results)]
    /\ chkPc' = "done"
    /\ UNCHANGED <<pfVars, fsVars, fcVars, anVars, storeVars, seedVars, clsVars, chkReq, productDocs,
                   latestInventory, rows>>

CheckIdle ==
    /\ chkPc = "idle" /\ chkReq = "all" /\ productDocs = <<>>
    /\ latestInventory = <<>> /\ rows = <<>> /\ chkResult = NoResult

\* the tool is called with `product`
CheckCall(product) ==
    /\ chkPc = "idle"
    /\ chkReq' = product
    /\ chkPc' = "start"
    /\ UNCHANGED <<storeVars, seedVars, clsVars, anVars, fcVars, pfVars, fsVars,
                   productDocs, latestInventory, rows, chkResult>>

\* the catch block of handleCheckInventory
CheckCatch(error) == [isError |-> TRUE, kind |-> "error", error |-> error]

\* the query awaited at this point rejects: Product.find, getLatestInventory, or
\* the consumption query of a callback, on which Promise.all rejects
CheckFail ==
    /\ \/ chkPc \in {"start", "latest"}
       \/ chkPc = "rows" /\ DOMAIN rows # Range(productDocs)
    /\ chkResult' = CheckCatch("store")
    /\ chkPc' = "done"
    /\ UNCHANGED <<storeVars, seedVars, clsVars, anVars, fcVars, pfVars, fsVars,
                   chkReq, productDocs, latestInventory, rows>>

-----------------------------------------------------------------------------
(* get_sales_analytics *)

\* MongoDB's $round of p / q to a multiple of unit: nearest, a half to the even one
MongoRound(p, q, unit) ==
    LET den == q * unit
        k == p \div den
        rem == p - k * den
    IN  IF 2 * rem < den THEN k * unit
        ELSE IF 2 * rem > den THEN (k + 1) * unit
        ELSE IF k % 2 = 0 THEN k * unit ELSE (k + 1) * unit

\* buildDateFilter(days) applied as the $match stage: the matching documents
DateFilterMatch(days) ==
    IF days <= 0 THEN DOMAIN sales
    ELSE {i \in DOMAIN sales : InLookback(sales[i].date, days)}

\* { $multiply: ["$price", "$quantity"] }
LineRevenue(i) == sales[i].price * sales[i].quantity

\* { $sum: { $multiply: ["$price", "$quantity"] } } over the documents I
SumRevenue(I) == SumOver([i \in I |-> LineRevenue(i)], I)

SumQuantity(I) == SumOver([i \in I |-> sales[i].quantity], I)

SumPrice(I) == SumOver([i \in I |-> sales[i].price], I)

\* getOverview(dateFilter)
GetOverview(days) ==
    LET I == DateFilterMatch(days)
    IN  IF I = {}
        THEN [total_revenue |-> 0, total_quantity |-> 0, total_orders |-> 0,
              avg_order_value |-> 0]
        ELSE [total_revenue |-> MongoRound(SumRevenue(I), 1, 200),
              total_quantity |-> SumQuantity(I),
              total_orders |-> Cardinality(I),
              avg_order_value |-> MongoRound(SumRevenue(I), Cardinality(I), 200),
              avg_price |-> MongoRound(SumPrice(I), Cardinality(I), 1),
              product_count |-> Cardinality({sales[i].product : i \in I}),
              channel_count |-> Cardinality({sales[i].purchaseType : i \in I})]

ProductRevenuePriceOnly(I) == SumOver([i \in I |-> sales[i].price * 200], I)

\* getByProduct's revenue: { $sum: { $multiply: ["$price", "$quantity"] } }
ProductRevenue(I) == SumRevenue(I)

\* the $group, $sort { revenue: -1 } and $project stages of getByProduct: the
\* rows in each order the sort may return (equal revenues in any order)
ByProductRows(days) ==
    LET I == DateFilterMatch(days)
        names == {sales[i].product : i \in I}
        of(n) == {i \in I : sales[i].product = n}
        orders == {o \in [1 .. Cardinality(names) -> names] :
                      /\ \A i, j \in DOMAIN o : i # j => o[i] # o[j]
                      /\ \A i, j \in DOMAIN o :
                            i < j => ProductRevenue(of(o[i])) >= ProductRevenue(of(o[j]))}
    IN  {[k \in DOMAIN o |->
            [product |-> o[k],
             revenue |-> MongoRound(ProductRevenue(of(o[k])), 1, 200),
             quantity |-> SumQuantity(of(o[k])),
             orders |-> Cardinality(of(o[k])),
             avg_price |-> MongoRound(SumPrice(of(o[k])), Cardinality(of(o[k])), 1)]]
         : o \in orders}

\* getByProduct(dateFilter): the rows, each with its share of the rows' total,
\* Math.round((r.revenue / totalRevenue) * 100 * 10) / 10, in tenths of a percent
GetByProduct(results) ==
    LET totalRevenue == SumSeq([k \in DOMAIN results |-> results[k].revenue])
    IN  [k \in DOMAIN results |->
            [product |-> results[k].product,
             revenue |-> results[k].revenue,
             quantity |-> results[k].quantity,
             orders |-> results[k].orders,
             avg_price |-> results[k].avg_price,
             revenue_pct |-> IF totalRevenue > 0
                             THEN MathRound(1000 * results[k].revenue, totalRevenue)
                             ELSE 0]]

AnalysisMap == {"overview", "by_product"}

\* the handler up to `await analysisFn()`; an unknown analysis type returns the
\* error payload at once
AnalyticsCall(analysis_type, days) ==
    /\ anPc = "idle"
    /\ anReq' = [analysis_type |-> analysis_type, days |-> days]
    /\ IF analysis_type \notin AnalysisMap
       THEN /\ anResult' = [isError |-> TRUE, kind |-> "unknown-type"]
            /\ anPc' = "done"
       ELSE /\ anResult' = NoResult
            /\ anPc' = "querying"
    /\ UNCHANGED <<pfVars, fsVars, fcVars, storeVars, seedVars, clsVars, chkVars, anLog>>

\* the aggregation answers; the handler builds the response and returns it
AnalyticsAnswer ==
    /\ anPc = "querying"
    /\ \E data \in IF anReq.analysis_type = "overview"
                   THEN {GetOverview(anReq.days)}
                   ELSE {GetByProduct(r) : r \in ByProductRows(anReq.days)} :
          /\ anResult' = [isError |-> FALSE, kind |-> "analytics",
                          analysis_type |-> anReq.analysis_type,
                          days |-> anReq.days, data |-> data]
          /\ anLog' = [anLog EXCEPT ![anReq.analysis_type] =
                          [days |-> anReq.days, data |-> data]]
    /\ anPc' = "done"
    /\ UNCHANGED <<pfVars, fsVars, fcVars, storeVars, seedVars, clsVars, chkVars, anReq>>

\* the catch block of handleGetSalesAnalytics
AnalyticsCatch(error) == [isError |-> TRUE, kind |-> "error", error |-> error]

\* the aggregation rejects
AnalyticsFail ==
    /\ anPc = "querying"
    /\ anResult' = AnalyticsCatch("store")
    /\ anPc' = "done"
    /\ UNCHANGED <<storeVars, seedVars, clsVars, chkVars, fcVars, pfVars, fsVars,
                   anReq, anLog>>

\* the next tool call may begin
AnalyticsReturn ==
    /\ anPc = "done"
    /\ anPc' = "idle"
    /\ anResult' = NoResult
    /\ UNCHANGED <<pfVars, fsVars, fcVars, storeVars, seedVars, clsVars, chkVars, anReq, anLog>>

NoResponse == [days |-> -1, data |-> <<>>]

AnalyticsIdle ==
    /\ anPc = "idle"
    /\ anReq = [analysis_type |-> "overview", days |-> 30]
    /\ anResult = NoResult
    /\ anLog = [t \in AnalysisMap |-> NoResponse]

-----------------------------------------------------------------------------
(* forecast_demand *)

FallbackLookbackDays == 30

\* { $subtract: [{ $dayOfWeek: "$date" }, 1] } and Date.prototype.getDay(): 0 = Sunday
DayOfWeek(date) == date % 7

\* the value of Math.max(0, x)
MathMax0(x) == IF x > 0 THEN x ELSE 0

\* the elements of a finite set of numbers in ascending order
Ascending(S) ==
    CHOOSE s \in [1 .. Cardinality(S) -> S] : \A i, j \in DOMAIN s : i < j => s[i] < s[j]

\* movingAverageFallback: matchFilter
FallbackMatch(product) ==
    {i \in DOMAIN sales :
        /\ InLookback(sales[i].date, FallbackLookbackDays)
        /\ product = "all" \/ sales[i].product = product}

\* movingAverageFallback: Sale.aggregate, one row per date, sorted by date
DailyData(product) ==
    LET I == FallbackMatch(product)
        dates == Ascending({sales[i].date : i \in I})
        on(date) == {i \in I : sales[i].date = date}
    IN  [k \in DOMAIN dates |->
            [date |-> dates[k],
             dayOfWeek |-> DayOfWeek(dates[k]),
             dailyQty |-> SumQuantity(on(dates[k])),
             dailyRevenue |-> SumRevenue(on(dates[k]))]]

\* dowMultipliers, in hundredths, for the weekdays observed in dailyData
DowMultipliers(dailyData) ==
    LET n == Len(dailyData)
        totalQty == SumSeq([k \in DOMAIN dailyData |-> dailyData[k].dailyQty])
        bucket(dow) == SelectSeq(dailyData, LAMBDA d : d.dayOfWeek = dow)
        bucketQty(dow) == SumSeq([k \in DOMAIN bucket(dow) |-> bucket(dow)[k].dailyQty])
    IN  [dow \in {dailyData[k].dayOfWeek : k \in DOMAIN dailyData} |->
            IF totalQty > 0                  \* avgDaily > 0
            THEN MathRound(100 * bucketQty(dow) * n, Len(bucket(dow)) * totalQty)
            ELSE 100]

\* dowMultipliers[dayOfWeek] || 1.0
DowMult(dowMultipliers, dayOfWeek) ==
    IF dayOfWeek \in DOMAIN dowMultipliers /\ dowMultipliers[dayOfWeek] # 0
    THEN dowMultipliers[dayOfWeek] ELSE 100

HorizonLong(daysAhead) == 1 .. daysAhead + 1

\* for (let i = 1; i <= daysAhead; i++)
Horizon(daysAhead) == 1 .. daysAhead

\* Math.round(avg * scale / 10000) for avg = total / (200 * n), the average of n
\* daily totals in whole units or dollars, evaluated without large intermediates:
\* with total = a * 200n + b, the value is floor((a * scale + b * scale / 200n) /
\* 10000 + 1/2)
RoundScaled(total, scale, n) ==
    LET a == total \div (200 * n)
        b == total % (200 * n)
    IN  (a * scale + (b * scale) \div (200 * n) + 5000) \div 10000

\* the first entry with the largest predicted_quantity
PeakDay(predictions) ==
    LET k == CHOOSE k \in DOMAIN predictions :
                 /\ \A j \in DOMAIN predictions :
                       predictions[j].predicted_quantity <= predictions[k].predicted_quantity
                 /\ \A j \in 1 .. k - 1 :
                       predictions[j].predicted_quantity < predictions[k].predicted_quantity
    IN  [date |-> predictions[k].date, day_name |-> predictions[k].day_name,
         quantity |-> predictions[k].predicted_quantity]

\* movingAverageFallback(product, daysAhead) on the aggregation's answer;
\* variance[i] is the hundredths of 0.9 + Math.random() * 0.2 drawn for day i
MovingAverageFallback(product, daysAhead, variance) ==
    LET dailyData == DailyData(product)
        n == Len(dailyData)
        totalQty == SumSeq([k \in DOMAIN dailyData |-> dailyData[k].dailyQty])
        totalRevenue == SumSeq([k \in DOMAIN dailyData |-> dailyData[k].dailyRevenue])
        dowMultipliers == DowMultipliers(dailyData)
        scale(i) == DowMult(dowMultipliers, DayOfWeek(Today + i)) * variance[i]
        predictions ==
            [i \in Horizon(daysAhead) |->
                [date |-> Today + i,
                 day_name |-> DayOfWeek(Today + i),
                 predicted_quantity |->
                     MathMax0(RoundScaled(totalQty, scale(i), n)),
                 predicted_revenue |->
                     MathMax0(RoundScaled(totalRevenue, scale(i), n)),   \* cents
                 confidence |-> "low"]]
        totalPredQty ==
            SumSeq([i \in DOMAIN predictions |-> predictions[i].predicted_quantity])
    IN  IF n = 0
        THEN [error |-> "No historical sales data found", suggestion |-> "seed"]
        ELSE [metadata |-> [product |-> product,
                            forecast_days |-> daysAhead,
                            model |-> "moving_average_fallback",
                            confidence |-> "low",
                            ml_service |-> "disconnected"],
              summary |-> [total_predicted_quantity |-> totalPredQty,
                           avg_daily_predicted |-> MathRound(totalPredQty, daysAhead),
                           peak_day |-> PeakDay(predictions)],
              daily_forecast |-> predictions]

\* the daily_forecast array of an ML forecast over `days` days
MLDailyForecast(days) ==
    [i \in 1 .. days |->
        [date |-> Today + i, day_name |-> DayOfWeek(Today + i),
         predicted_demand |-> 10 * i, lower_bound |-> 8 * i, upper_bound |-> 12 * i,
         spike_multiplier |-> IF i = 1 THEN 145 ELSE 100]]

\* the forecast of one product as the ML service words it: "full" with a
\* summary, "bare" without, "detail" the { detail } object of an error answer
MLForecastOf(body, days) ==
    IF body = "full"
    THEN [summary |-> [total_predicted |-> 5 * days * (days + 1),
                       avg_daily_demand |-> 5 * (days + 1)],
          daily_forecast |-> MLDailyForecast(days)]
    ELSE IF body = "bare"
    THEN [daily_forecast |-> MLDailyForecast(days)]
    ELSE [detail |-> "Not Found"]

MLTotals(days) ==
    [total_revenue |-> 100 * days, total_cost |-> 40 * days, total_profit |-> 60 * days,
     margin_percent |-> 60, avg_daily_profit |-> 60]

MLProfitOf(body, days) ==
    IF body = "full"
    THEN [totals |-> MLTotals(days),
          daily_projections |-> [i \in 1 .. days |->
                                    [revenue |-> 100, cost |-> 40, profit |-> 60]]]
    ELSE IF body = "bare"
    THEN [totals |-> MLTotals(days)]
    ELSE [detail |-> "Not Found"]

\* forecastRes.json() of a parsable, non-null body
ForecastJson(body, product, days) ==
    IF product # "all" \/ body = "detail" THEN MLForecastOf(body, days)
    ELSE [p \in ProductNames |-> MLForecastOf(body, days)]

\* profitRes.json() of a parsable, non-null body
ProfitJson(body, product, days) ==
    IF product # "all" \/ body = "detail" THEN MLProfitOf(body, days)
    ELSE IF body = "full"
    THEN [by_product |-> [p \in ProductNames |-> [totals |-> MLTotals(days)]],
          combined |-> [grand_total_revenue |-> 200 * days,
                        grand_total_cost |-> 80 * days,
                        grand_total_profit |-> 120 * days,
                        blended_margin_percent |-> 60,
                        avg_daily_profit |-> 120]]
    ELSE [combined |-> [grand_total_revenue |-> 200 * days]]

\* obj.field?.sub || 0 and obj.field?.sub || alt
OrElse(obj, field, sub, alt) ==
    IF field \in DOMAIN obj /\ sub \in DOMAIN obj[field] /\ obj[field][sub] # 0
    THEN obj[field][sub] ELSE alt

\* forecast.daily_forecast || []
DailyOf(forecast) ==
    IF "daily_forecast" \in DOMAIN forecast THEN forecast.daily_forecast ELSE <<>>

SumDemand(forecast) ==
    SumSeq([i \in DOMAIN DailyOf(forecast) |-> DailyOf(forecast)[i].predicted_demand])

\* findPeakDay(dailyForecast)
FindPeakDay(dailyForecast) ==
    IF dailyForecast = <<>> THEN [date |-> -1]              \* null
    ELSE LET k == CHOOSE k \in DOMAIN dailyForecast :
                      /\ \A j \in DOMAIN dailyForecast :
                            dailyForecast[j].predicted_demand
                                <= dailyForecast[k].predicted_demand
                      /\ \A j \in 1 .. k - 1 :
                            dailyForecast[j].predicted_demand
                                < dailyForecast[k].predicted_demand
         IN  [date |-> dailyForecast[k].date, day_name |-> dailyForecast[k].day_name,
              quantity |-> dailyForecast[k].predicted_demand]

\* formatMLResponse(product, days, forecastData, profitData) on two objects
FormatMLResponse(product, days, forecast, profit) ==
    IF product # "all"
    THEN [metadata |-> [product |-> product, forecast_days |-> days,
                        model |-> "prophet_ml", confidence |-> "high",
                        ml_service |-> "connected"],
          summary |->
              [total_predicted_quantity |->
                   OrElse(forecast, "summary", "total_predicted", SumDemand(forecast)),
               avg_daily_predicted |->
                   OrElse(forecast, "summary", "avg_daily_demand",
                          MathRound(SumDemand(forecast), days)),
               peak_day |-> FindPeakDay(DailyOf(forecast)),
               festival_days |->
                   Len(SelectSeq(DailyOf(forecast), LAMBDA d : d.spike_multiplier > 100))],
          profit_projection |->
              [total_revenue |-> OrElse(profit, "totals", "total_revenue", 0),
               total_cost |-> OrElse(profit, "totals", "total_cost", 0),
               total_profit |-> OrElse(profit, "totals", "total_profit", 0),
               margin_percent |-> OrElse(profit, "totals", "margin_percent", 0),
               avg_daily_profit |-> OrElse(profit, "totals", "avg_daily_profit", 0)],
          daily_forecast |->
              [i \in DOMAIN DailyOf(forecast) |->
                  LET day == DailyOf(forecast)[i]
                  IN  IF "daily_projections" \in DOMAIN profit
                         /\ i \in DOMAIN profit.daily_projections
                      THEN [date |-> day.date, day_name |-> day.day_name,
                            predicted_quantity |-> day.predicted_demand,
                            confidence_low |-> day.lower_bound,
                            confidence_high |-> day.upper_bound,
                            festival_multiplier |-> day.spike_multiplier,
                            projected_revenue |-> profit.daily_projections[i].revenue,
                            projected_cost |-> profit.daily_projections[i].cost,
                            projected_profit |-> profit.daily_projections[i].profit]
                      ELSE [date |-> day.date, day_name |-> day.day_name,
                            predicted_quantity |-> day.predicted_demand,
                            confidence_low |-> day.lower_bound,
                            confidence_high |-> day.upper_bound,
                            festival_multiplier |-> day.spike_multiplier]]]
    ELSE [metadata |-> [product |-> "all", forecast_days |-> days,
                        model |-> "prophet_ml", confidence |-> "high",
                        ml_service |-> "connected",
                        product_count |-> Cardinality(DOMAIN forecast)],
          product_summaries |->
              [prodName \in DOMAIN forecast |->
                  LET prodForecast == IF prodName = "detail" THEN [none |-> 0]
                                      ELSE forecast[prodName]
                      prodProfit == IF "by_product" \in DOMAIN profit
                                       /\ prodName \in DOMAIN profit.by_product
                                    THEN profit.by_product[prodName] ELSE [none |-> 0]
                  IN  [total_predicted_quantity |->
                           OrElse(prodForecast, "summary", "total_predicted",
                                  SumDemand(prodForecast)),
                       avg_daily |->
                           OrElse(prodForecast, "summary", "avg_daily_demand",
                                  MathRound(SumDemand(prodForecast), days)),
                       total_profit |-> OrElse(prodProfit, "totals", "total_profit", 0),
                       margin_percent |->
                           OrElse(prodProfit, "totals", "margin_percent", 0)]],
          combined_profit |->
              [total_revenue |-> OrElse(profit, "combined", "grand_total_revenue", 0),
               total_cost |-> OrElse(profit, "combined", "grand_total_cost", 0),
               total_profit |-> OrElse(profit, "combined", "grand_total_profit", 0),
               blended_margin |->
                   OrElse(profit, "combined", "blended_margin_percent", 0),
               avg_daily_profit |-> OrElse(profit, "combined", "avg_daily_profit", 0)]]

MlPending == [state |-> "pending"]

\* return null
MlNull == [state |-> "null"]

MlValue(v) == [state |-> "value", value |-> v]

\* the catch block of handleForecastDemand
ForecastCatch(error) == [isError |-> TRUE, kind |-> "error", error |-> error]

\* the payload wrapped around mlResult or fallbackResult
ForecastPayload(data) == [isError |-> FALSE, kind |-> "forecast", data |-> data]

Fetches == {"forecast", "profit"}

OtherFetch(which) == IF which = "forecast" THEN "profit" ELSE "forecast"

\* what an answer with a success status may carry, and one without
OkBodies == {"full", "bare", "null", "garbage"}

NotOkBodies == {"detail", "garbage"}

\* the hundredths of the values 0.9 + Math.random() * 0.2 takes
Variances == {90, 109}

AnyNotOkBoth(forecastRes, profitRes) == forecastRes # "ok" /\ profitRes # "ok"

\* !forecastRes.ok || !profitRes.ok
AnyNotOk(forecastRes, profitRes) == forecastRes # "ok" \/ profitRes # "ok"

\* handleForecastDemand calls callMLService, which arms the timeout, starts both
\* fetches and awaits Promise.all
ForecastCall(product, days_ahead) ==
    /\ fcPc = "idle"
    /\ fcReq' = [product |-> product, days_ahead |-> days_ahead]
    /\ timeout' = "armed"
    /\ fetchSt' = [w \in Fetches |-> "pending"]
    /\ fcPc' = "fetching"
    /\ UNCHANGED <<pfVars, fsVars, storeVars, seedVars, clsVars, chkVars, anVars, forecastData,
                   profitData, mlResult, fcResult>>

\* callMLService's catch: return null; the handler goes on to the fallback
AbandonPrimary ==
    /\ mlResult' = MlNull
    /\ fcPc' = "fallback"

\* the headers of one answer arrive; when it is the second, Promise.all resolves:
\* clearTimeout, then the status check
FetchRespond(which, status) ==
    /\ fetchSt[which] = "pending"
    /\ fetchSt' = [fetchSt EXCEPT ![which] = status]
    /\ IF fcPc = "fetching" /\ fetchSt[OtherFetch(which)] \in {"ok", "notok"}
       THEN /\ timeout' = "cleared"
            /\ IF AnyNotOk(fetchSt'["forecast"], fetchSt'["profit"])
               THEN AbandonPrimary
               ELSE fcPc' = "readForecast" /\ mlResult' = mlResult
       ELSE UNCHANGED <<pfVars, fsVars, timeout, mlResult, fcPc>>
    /\ UNCHANGED <<pfVars, fsVars, storeVars, seedVars, clsVars, chkVars, anVars, fcReq,
                   forecastData, profitData, fcResult>>

\* one fetch rejects (connection refused, reset): Promise.all rejects at once and
\* the timeout stays armed
FetchReject(which) ==
    /\ fetchSt[which] = "pending"
    /\ fetchSt' = [fetchSt EXCEPT ![which] = "rejected"]
    /\ IF fcPc = "fetching" THEN AbandonPrimary ELSE UNCHANGED <<pfVars, fsVars, mlResult, fcPc>>
    /\ UNCHANGED <<pfVars, fsVars, storeVars, seedVars, clsVars, chkVars, anVars, fcReq, timeout,
                   forecastData, profitData, fcResult>>

\* the timeout fires: controller.abort() rejects every fetch still pending
TimeoutFire ==
    /\ timeout = "armed"
    /\ timeout' = "fired"
    /\ fetchSt' = [w \in Fetches |->
                      IF fetchSt[w] = "pending" THEN "aborted" ELSE fetchSt[w]]
    /\ IF fcPc = "fetching" THEN AbandonPrimary ELSE UNCHANGED <<pfVars, fsVars, mlResult, fcPc>>
    /\ UNCHANGED <<pfVars, fsVars, storeVars, seedVars, clsVars, chkVars, anVars, fcReq,
                   forecastData, profitData, fcResult>>

\* the bodies an answer of this status may carry
Bodies(status) == IF status = "ok" THEN OkBodies ELSE NotOkBodies

\* await forecastRes.json(): the body is parsed, or is not JSON and json() rejects
ReadForecastBody(body) ==
    /\ fcPc = "readForecast"
    /\ body \in Bodies(fetchSt["forecast"])
    /\ IF body = "garbage"
       THEN AbandonPrimary /\ forecastData' = forecastData
       ELSE /\ forecastData' = body
            /\ fcPc' = "readProfit"
            /\ mlResult' = mlResult
    /\ UNCHANGED <<pfVars, fsVars, storeVars, seedVars, clsVars, chkVars, anVars, fcReq, timeout, fetchSt,
                   profitData, fcResult>>

\* await profitRes.json(); formatMLResponse, which throws on a null; the handler
\* returns a truthy mlResult
ReadProfitBody(body) ==
    /\ fcPc = "readProfit"
    /\ body \in Bodies(fetchSt["profit"])
    /\ IF body = "garbage"
       THEN AbandonPrimary /\ UNCHANGED <<pfVars, fsVars, profitData, fcResult>>
       ELSE /\ profitData' = body
            /\ IF forecastData = "null" \/ body = "null"
               THEN AbandonPrimary /\ fcResult' = fcResult
               ELSE LET value == FormatMLResponse(
                                     fcReq.product, fcReq.days_ahead,
                                     ForecastJson(forecastData, fcReq.product,
                                                  fcReq.days_ahead),
                                     ProfitJson(body, fcReq.product, fcReq.days_ahead))
                    IN  /\ mlResult' = MlValue(value)
                        /\ fcResult' = ForecastPayload(value)
                        /\ fcPc' = "done"
    /\ UNCHANGED <<pfVars, fsVars, storeVars, seedVars, clsVars, chkVars, anVars, fcReq, timeout, fetchSt,
                   forecastData>>

\* movingAverageFallback's aggregation answers; the handler returns its result
FallbackAnswer ==
    /\ fcPc = "fallback"
    /\ \E variance \in [Horizon(fcReq.days_ahead) -> Variances] :
          fcResult' = ForecastPayload(
                          MovingAverageFallback(fcReq.product, fcReq.days_ahead, variance))
    /\ fcPc' = "done"
    /\ UNCHANGED <<pfVars, fsVars, storeVars, seedVars, clsVars, chkVars, anVars, fcReq, timeout, fetchSt,
                   forecastData, profitData, mlResult>>

\* movingAverageFallback's aggregation rejects; the handler's catch returns
FallbackFail ==
    /\ fcPc = "fallback"
    /\ fcResult' = ForecastCatch("store")
    /\ fcPc' = "done"
    /\ UNCHANGED <<pfVars, fsVars, storeVars, seedVars, clsVars, chkVars, anVars, fcReq, timeout, fetchSt,
                   forecastData, profitData, mlResult>>

ForecastIdle ==
    /\ fcPc = "idle"
    /\ fcReq = [product |-> "all", days_ahead |-> 1]
    /\ timeout = "unset"
    /\ fetchSt = [w \in Fetches |-> "idle"]
    /\ forecastData = "unread"
    /\ profitData = "unread"
    /\ mlResult = MlPending
    /\ fcResult = NoResult

\* the tool call has returned; the next one starts from scratch, with a timeout
\* and fetches of its own
ForecastReturn ==
    /\ fcPc = "done"
    /\ fcPc' = "idle"
    /\ fcReq' = [product |-> "all", days_ahead |-> 1]
    /\ timeout' = "unset"
    /\ fetchSt' = [w \in Fetches |-> "idle"]
    /\ forecastData' = "unread"
    /\ profitData' = "unread"
    /\ mlResult' = MlPending
    /\ fcResult' = NoResult
    /\ UNCHANGED <<pfVars, fsVars, storeVars, seedVars, clsVars, chkVars, anVars>>

-----------------------------------------------------------------------------
(* calculate_profit *)

\* dateFilter of handleCalculateProfit, applied as the $match stage
ProfitMatch(product, days) ==
    {i \in DOMAIN sales :
        /\ days <= 0 \/ InLookback(sales[i].date, days)
        /\ product = "all" \/ sales[i].product = product}

\* getCostMap()
GetCostMap ==
    [name \in DOMAIN products |->
        [costPrice |-> products[name].costPrice, category |-> products[name].category]]

\* costMap[name] || { costPrice: 0 }
CostOf(map, name) == IF name \in DOMAIN map THEN map[name] ELSE [costPrice |-> 0]

GrossProfitNoCost(revenue, cogs) == revenue

\* grossProfit = item.revenue - cogs
GrossProfit(revenue, cogs) == revenue - cogs

\* one row of getProductProfitBreakdown, for the documents I of product `name`
BreakdownRow(I, name, map) ==
    LET revenue == SumRevenue(I)
        totalQuantity == SumQuantity(I)
        cost == CostOf(map, name)
        cogs == cost.costPrice * totalQuantity
        grossProfit == GrossProfit(revenue, cogs)
    IN  [product |-> name,
         category |-> IF "category" \in DOMAIN cost THEN cost.category ELSE "unknown",
         revenue |-> MathRound(revenue, 200),                       \* cents
         cost_of_goods |-> MathRound(cogs, 200),
         gross_profit |-> MathRound(grossProfit, 200),
         margin_percent |-> IF revenue > 0                          \* tenths
                            THEN MathRound(1000 * grossProfit, revenue) ELSE 0,
         units_sold |-> totalQuantity,
         orders |-> Cardinality(I),
         avg_selling_price |-> MathRound(SumPrice(I), Cardinality(I)),
         cost_per_unit |-> cost.costPrice,
         profit_per_unit |->
             MathRound(SumPrice(I) - cost.costPrice * Cardinality(I), Cardinality(I))]

\* getProductProfitBreakdown(dateFilter, costMap): the rows in each order
\* $sort { revenue: -1 } may return
ProductProfitBreakdown(product, days, map) ==
    LET I == ProfitMatch(product, days)
        names == {sales[i].product : i \in I}
        of(n) == {i \in I : sales[i].product = n}
        orders == {o \in [1 .. Cardinality(names) -> names] :
                      /\ \A i, j \in DOMAIN o : i # j => o[i] # o[j]
                      /\ \A i, j \in DOMAIN o :
                            i < j => SumRevenue(of(o[i])) >= SumRevenue(of(o[j]))}
    IN  {[k \in DOMAIN o |-> BreakdownRow(of(o[k]), o[k], map)] : o \in orders}

\* the period a date falls in: "%Y-%m-%d", or the ISO week "%Y-W%V"
PeriodOf(date, groupBy) == IF groupBy = "week" THEN (date + 6) \div 7 ELSE date

PeriodCogsBlended(J, map) ==
    LET names == {sales[i].product : i \in J}
    IN  (SumOver([n \in names |-> CostOf(map, n).costPrice], names) * SumQuantity(J))
            \div Cardinality(names)

\* entry.cogs of getProfitTrend for the documents J of one period: the cogs of
\* the period's (period, product) groups, each costPrice * quantity, added up
PeriodCogs(J, map) ==
    LET names == {sales[i].product : i \in J}
        of(n) == {i \in J : sales[i].product = n}
    IN  SumOver([n \in names |-> CostOf(map, n).costPrice * SumQuantity(of(n))], names)

\* getProfitTrend(dateFilter, costMap, groupBy)
GetProfitTrend(product, days, map, groupBy) ==
    LET I == ProfitMatch(product, days)
        periods == Ascending({PeriodOf(sales[i].date, groupBy) : i \in I})
        in(period) == {i \in I : PeriodOf(sales[i].date, groupBy) = period}
        cogsOf(J) == PeriodCogs(J, map)
    IN  [k \in DOMAIN periods |->
            LET J == in(periods[k])
                revenue == SumRevenue(J)
                profit == revenue - cogsOf(J)
            IN  [period |-> periods[k],
                 revenue |-> MathRound(revenue, 200),
                 cost_of_goods |-> MathRound(cogsOf(J), 200),
                 gross_profit |-> MathRound(profit, 200),
                 margin_percent |-> IF revenue > 0
                                    THEN MathRound(1000 * profit, revenue) ELSE 0]]

\* totals of handleCalculateProfit
ProfitTotals(rows_) ==
    LET sum(field) == SumSeq([k \in DOMAIN rows_ |-> rows_[k][field]])
    IN  [revenue |-> sum("revenue"),
         cost_of_goods |-> sum("cost_of_goods"),
         gross_profit |-> sum("gross_profit"),
         units_sold |-> sum("units_sold"),
         orders |-> sum("orders"),
         overall_margin_percent |->
             IF sum("revenue") > 0
             THEN MathRound(1000 * sum("gross_profit"), sum("revenue")) ELSE 0]

\* the first row, in the array's order, with the largest value of `field`
\* (sortedBy...[0] of a stable descending sort)
FirstLargest(rows_, field) ==
    CHOOSE k \in DOMAIN rows_ :
        /\ \A j \in DOMAIN rows_ : rows_[j][field] <= rows_[k][field]
        /\ \A j \in 1 .. k - 1 : rows_[j][field] < rows_[k][field]

\* the last row with the smallest value (the last element of the same sort)
LastSmallest(rows_, field) ==
    CHOOSE k \in DOMAIN rows_ :
        /\ \A j \in DOMAIN rows_ : rows_[j][field] >= rows_[k][field]
        /\ \A j \in k + 1 .. Len(rows_) : rows_[j][field] > rows_[k][field]

\* insights of handleCalculateProfit
ProfitInsights(rows_, totals) ==
    [highest_margin_product |->
         IF rows_ = <<>> THEN "N/A" ELSE rows_[FirstLargest(rows_, "margin_percent")].product,
     lowest_margin_product |->
         IF rows_ = <<>> THEN "N/A" ELSE rows_[LastSmallest(rows_, "margin_percent")].product,
     most_profitable_product |->
         IF rows_ = <<>> THEN "N/A" ELSE rows_[FirstLargest(rows_, "gross_profit")].product,
     tip |-> IF totals.overall_margin_percent >= 600 THEN "great"
             ELSE IF totals.overall_margin_percent >= 400 THEN "decent" ELSE "low"]

\* response of handleCalculateProfit, before profit_trend is added
ProfitResponse(req, rows_) ==
    [period |-> req.days,
     product_filter |-> req.product,
     totals |-> ProfitTotals(rows_),
     insights |-> ProfitInsights(rows_, ProfitTotals(rows_)),
     product_breakdown |-> rows_]

ProfitPayload(response) == [isError |-> FALSE, kind |-> "profit", data |-> response]

\* the catch block of handleCalculateProfit
ProfitCatch(error) == [isError |-> TRUE, kind |-> "error", error |-> error]

\* the tool is called; it awaits getCostMap()
ProfitCall(product, days, include_trend, group_by) ==
    /\ pfPc = "idle"
    /\ pfReq' = [product |-> product, days |-> days,
                 include_trend |-> include_trend, group_by |-> group_by]
    /\ pfPc' = "costMap"
    /\ UNCHANGED <<storeVars, seedVars, clsVars, chkVars, anVars, fcVars, fsVars,
                   costMap, breakdown, pfResult>>

\* Product.find answers; the handler awaits getProductProfitBreakdown
ProfitCostMap ==
    /\ pfPc = "costMap"
    /\ costMap' = GetCostMap
    /\ pfPc' = "breakdown"
    /\ UNCHANGED <<storeVars, seedVars, clsVars, chkVars, anVars, fcVars, fsVars,
                   pfReq, breakdown, pfResult>>

\* the breakdown's aggregation answers: totals, insights, response; the handler
\* returns, or awaits getProfitTrend when include_trend is set
ProfitBreakdown ==
    /\ pfPc = "breakdown"
    /\ breakdown' \in ProductProfitBreakdown(pfReq.product, pfReq.days, costMap)
    /\ IF pfReq.include_trend
       THEN pfPc' = "trend" /\ pfResult' = pfResult
       ELSE pfPc' = "done" /\ pfResult' = ProfitPayload(ProfitResponse(pfReq, breakdown'))
    /\ UNCHANGED <<storeVars, seedVars, clsVars, chkVars, anVars, fcVars, fsVars,
                   pfReq, costMap>>

\* the trend's aggregation answers; the handler returns
ProfitTrend ==
    /\ pfPc = "trend"
    /\ LET response == ProfitResponse(pfReq, breakdown)
           trend == GetProfitTrend(pfReq.product, pfReq.days, costMap, pfReq.group_by)
       IN  pfResult' = ProfitPayload(
               [f \in DOMAIN response \cup {"profit_trend"} |->
                   IF f = "profit_trend" THEN trend ELSE response[f]])
    /\ pfPc' = "done"
    /\ UNCHANGED <<storeVars, seedVars, clsVars, chkVars, anVars, fcVars, fsVars,
                   pfReq, costMap, breakdown>>

\* the query awaited at this point rejects
ProfitFail ==
    /\ pfPc \in {"costMap", "breakdown", "trend"}
    /\ pfResult' = ProfitCatch("store")
    /\ pfPc' = "done"
    /\ UNCHANGED <<storeVars, seedVars, clsVars, chkVars, anVars, fcVars, fsVars,
                   pfReq, costMap, breakdown>>

\* the caller has the answer; the tool can be called again
ProfitReturn ==
    /\ pfPc = "done"
    /\ pfPc' = "idle"
    /\ pfReq' = [product |-> "all", days |-> 30, include_trend |-> FALSE,
                 group_by |-> "day"]
    /\ costMap' = <<>>
    /\ breakdown' = <<>>
    /\ pfResult' = NoResult
    /\ UNCHANGED <<storeVars, seedVars, clsVars, chkVars, anVars, fcVars, fsVars>>

ProfitIdle ==
    /\ pfPc = "idle"
    /\ pfReq = [product |-> "all", days |-> 30, include_trend |-> FALSE,
                group_by |-> "day"]
    /\ costMap = <<>>
    /\ breakdown = <<>>
    /\ pfResult = NoResult

-----------------------------------------------------------------------------
(* get_upcoming_festivals *)

CacheMaxAgeHours == 24

\* the clock in hours: midnight or noon of Today
NowHour == Today * 24 + (IF atMidnight THEN 0 ELSE 12)

\* the keywords of HIGH_IMPACT_HOLIDAYS and MEDIUM_IMPACT_HOLIDAYS that the
\* lower-cased name includes, for the holiday names of this model
KeywordsIn(holidayName) ==
    IF holidayName = "Christmas Day" THEN {"christmas"}
    ELSE IF holidayName = "New Year's Day" THEN {"new year"}
    ELSE IF holidayName = "Labor Day" THEN {"labor day"}
    ELSE {}                                                    \* "Columbus Day"

\* classifyImpact(holidayName), the multiplier in hundredths
ClassifyImpact(holidayName) ==
    IF KeywordsIn(holidayName)
           \cap {"thanksgiving", "super bowl", "christmas", "independence day", "new year"}
           # {}
    THEN [level |-> "HIGH", multiplier |-> 145]
    ELSE IF KeywordsIn(holidayName)
                \cap {"memorial", "labor day", "mother", "father", "valentine",
                      "halloween", "black friday"} # {}
    THEN [level |-> "MEDIUM", multiplier |-> 125]
    ELSE [level |-> "LOW", multiplier |-> 110]

Holiday(name, date) == [name |-> name, localName |-> name, date |-> date]

\* what date.nager.at lists for a year (0 the current one, 1 the next) and country
NagerHolidays(year, countryCode) ==
    IF countryCode = "US"
    THEN IF year = 0
         THEN <<Holiday("Columbus Day", Today - 20), Holiday("Christmas Day", Today + 5)>>
         ELSE <<Holiday("New Year's Day", Today + 9)>>
    ELSE IF countryCode = "CA"
    THEN IF year = 0
         THEN <<Holiday("Labor Day", Today - 40), Holiday("Christmas Day", Today + 5)>>
         ELSE <<Holiday("New Year's Day", Today + 9)>>
    ELSE <<>>

UpsertAccumulating(holiday, countryCode) ==
    LET impact == ClassifyImpact(holiday.name)
        hit == {f \in festivals : f.name = holiday.name /\ f.date = holiday.date}
    IN  IF hit # {}
        THEN {IF f \in hit
              THEN [f EXCEPT !.localName = holiday.localName,
                             !.countryCode = countryCode,
                             !.source = "nager-api",
                             !.demandMultiplier = f.demandMultiplier + impact.multiplier,
                             !.fetchedAt = NowHour]
              ELSE f : f \in festivals}
        ELSE festivals \cup
                 {[name |-> holiday.name, date |-> holiday.date,
                   localName |-> holiday.localName, countryCode |-> countryCode,
                   source |-> "nager-api", demandMultiplier |-> impact.multiplier,
                   fetchedAt |-> NowHour]}

UpsertInsertOnly(holiday, countryCode) ==
    festivals \cup
        {[name |-> holiday.name, date |-> holiday.date,
          localName |-> holiday.localName, countryCode |-> countryCode,
          source |-> "nager-api",
          demandMultiplier |-> ClassifyImpact(holiday.name).multiplier,
          fetchedAt |-> NowHour]}

\* Festival.updateOne({ name, date }, { $set: {...} }, { upsert: true })
UpsertFestival(holiday, countryCode) ==
    LET impact == ClassifyImpact(holiday.name)
        hit == {f \in festivals : f.name = holiday.name /\ f.date = holiday.date}
        set(f) == [f EXCEPT !.localName = holiday.localName,
                            !.countryCode = countryCode,
                            !.source = "nager-api",
                            !.demandMultiplier = impact.multiplier,
                            !.fetchedAt = NowHour]
    IN  IF hit # {}
        THEN {IF f \in hit THEN set(f) ELSE f : f \in festivals}
        ELSE festivals \cup
                 {[name |-> holiday.name, date |-> holiday.date,
                   localName |-> holiday.localName, countryCode |-> countryCode,
                   source |-> "nager-api", demandMultiplier |-> impact.multiplier,
                   fetchedAt |-> NowHour]}

\* isCacheFresh(countryCode)
IsCacheFresh(countryCode) ==
    LET ofCountry == {f \in festivals : f.countryCode = countryCode}
    IN  /\ ofCountry # {}
        /\ LET latest == CHOOSE f \in ofCountry :
                             \A g \in ofCountry : g.fetchedAt <= f.fetchedAt
           IN  NowHour - latest.fetchedAt < CacheMaxAgeHours

\* Festival.find({ countryCode, date: { $gte: today, $lte: futureDate } })
\* .sort({ date: 1 }): the documents in each order the sort may return
FindUpcoming(days_ahead, countryCode) ==
    LET hit == {f \in festivals :
                   /\ f.countryCode = countryCode
                   /\ f.date >= Today /\ f.date <= Today + days_ahead}
    IN  {o \in [1 .. Cardinality(hit) -> hit] :
            /\ \A i, j \in DOMAIN o : i # j => o[i] # o[j]
            /\ \A i, j \in DOMAIN o : i < j => o[i].date <= o[j].date}

\* the formatted entry of one cached festival
FormatFestival(f) ==
    [name |-> f.name,
     date |-> f.date,
     local_name |-> f.localName,
     days_until |-> f.date - Today,
     impact |-> ClassifyImpact(f.name).level,
     demand_multiplier |-> IF f.demandMultiplier # 0 THEN f.demandMultiplier
                           ELSE ClassifyImpact(f.name).multiplier]

\* the response of handleGetUpcomingFestivals
FestivalsResponse(found, req, fresh) ==
    LET formatted == [k \in DOMAIN found |-> FormatFestival(found[k])]
    IN  [festivals |-> formatted,
         summary |-> [total_upcoming |-> Len(formatted),
                      high_impact_count |->
                          Len(SelectSeq(formatted, LAMBDA f : f.impact = "HIGH")),
                      next_festival |-> IF formatted = <<>> THEN <<>>
                                        ELSE <<formatted[1]>>,
                      country |-> req.country_code,
                      days_searched |-> req.days_ahead,
                      cache_status |-> IF fresh THEN "fresh" ELSE "refreshed"]]

FestivalsRethrow(error) == [isError |-> FALSE, kind |-> "exception", error |-> error]

\* the catch block of handleGetUpcomingFestivals
FestivalsCatch(error) == [isError |-> TRUE, kind |-> "error", error |-> error]

\* fetch(url) of fetchFromNagerAPI: the request for `year` goes out when the
\* handler moves on to the fetch
Requested(pc, year) == IF pc = "fetch" THEN Append(nagerLog, year) ELSE nagerLog

\* the tool is called; it awaits isCacheFresh
FestivalsCall(days_ahead, country_code) ==
    /\ fsPc = "idle"
    /\ fsReq' = [days_ahead |-> days_ahead, country_code |-> country_code]
    /\ fsPc' = "freshness"
    /\ UNCHANGED <<storeVars, seedVars, clsVars, chkVars, anVars, fcVars, pfVars,
                   festivals, inLastQuarter, cacheFresh, fsYear, holidays, fsResult,
                   nagerLog>>
    /\ UNCHANGED fsOther

\* isCacheFresh answers: a stale cache starts the sync of the current year
FestivalsFreshness ==
    /\ fsPc = "freshness"
    /\ cacheFresh' = IsCacheFresh(fsReq.country_code)
    /\ fsPc' = IF cacheFresh' THEN "find" ELSE "fetch"
    /\ nagerLog' = Requested(fsPc', fsYear)
    /\ UNCHANGED <<storeVars, seedVars, clsVars, chkVars, anVars, fcVars, pfVars,
                   festivals, inLastQuarter, fsReq, fsYear, holidays, fsResult>>
    /\ UNCHANGED fsOther

AfterSyncCurrentOnly(year) == "find"

\* after the last upsert of a year: the next year in the last quarter, else the query
AfterSync(year) == IF year = 0 /\ inLastQuarter THEN "fetch" ELSE "find"

\* fetchFromNagerAPI answers with a success status and a parsable list
FestivalsFetch ==
    /\ fsPc = "fetch"
    /\ holidays' = NagerHolidays(fsYear, fsReq.country_code)
    /\ IF holidays' # <<>>
       THEN fsPc' = "upsert" /\ fsYear' = fsYear
       ELSE fsPc' = AfterSync(fsYear) /\ fsYear' = IF fsPc' = "fetch" THEN 1 ELSE fsYear
    /\ nagerLog' = Requested(fsPc', fsYear')
    /\ UNCHANGED <<storeVars, seedVars, clsVars, chkVars, anVars, fcVars, pfVars,
                   festivals, inLastQuarter, fsReq, cacheFresh, fsResult>>
    /\ UNCHANGED fsOther

\* one Festival.updateOne of the loop answers
FestivalsUpsert ==
    /\ fsPc = "upsert"
    /\ festivals' = UpsertFestival(Head(holidays), fsReq.country_code)
    /\ holidays' = Tail(holidays)
    /\ IF holidays' # <<>>
       THEN fsPc' = "upsert" /\ fsYear' = fsYear
       ELSE fsPc' = AfterSync(fsYear) /\ fsYear' = IF fsPc' = "fetch" THEN 1 ELSE fsYear
    /\ nagerLog' = Requested(fsPc', fsYear')
    /\ UNCHANGED <<storeVars, seedVars, clsVars, chkVars, anVars, fcVars, pfVars,
                   inLastQuarter, fsReq, cacheFresh, fsResult>>
    /\ UNCHANGED fsOther

\* Festival.find answers; the handler formats the entries and returns
FestivalsFind ==
    /\ fsPc = "find"
    /\ \E found \in FindUpcoming(fsReq.days_ahead, fsReq.country_code) :
          fsResult' = [isError |-> FALSE, kind |-> "festivals",
                       data |-> FestivalsResponse(found, fsReq, cacheFresh)]
    /\ fsPc' = "done"
    /\ UNCHANGED <<storeVars, seedVars, clsVars, chkVars, anVars, fcVars, pfVars,
                   festivals, inLastQuarter, fsReq, cacheFresh, fsYear, holidays,
                   nagerLog>>
    /\ UNCHANGED fsOther

\* what can go wrong at each await: a store query rejects; the fetch rejects,
\* answers with a non-2xx status, or with a body that is not a list of holidays
FestivalFailures(pc) ==
    IF pc = "fetch" THEN {"network", "status", "malformed"}
    ELSE IF pc = "upsert" THEN {"store", "malformed"}
    ELSE IF pc \in {"freshness", "find"} THEN {"store"}
    ELSE {}

\* the operation awaited at this point fails; the handler's catch returns
FestivalsFail(error) ==
    /\ error \in FestivalFailures(fsPc)
    /\ fsResult' = FestivalsCatch(error)
    /\ fsPc' = "done"
    /\ UNCHANGED <<storeVars, seedVars, clsVars, chkVars, anVars, fcVars, pfVars,
                   festivals, inLastQuarter, fsReq, cacheFresh, fsYear, holidays,
                   nagerLog>>
    /\ UNCHANGED fsOther

\* the caller has the answer; the tool can be called again
FestivalsReturn ==
    /\ fsPc = "done"
    /\ fsPc' = "idle"
    /\ fsReq' = [days_ahead |-> 90, country_code |-> "US"]
    /\ cacheFresh' = FALSE
    /\ fsYear' = 0
    /\ holidays' = <<>>
    /\ fsResult' = NoResult
    /\ nagerLog' = <<>>
    /\ UNCHANGED <<storeVars, seedVars, clsVars, chkVars, anVars, fcVars, pfVars,
                   festivals, inLastQuarter>>
    /\ UNCHANGED fsOther

\* the locals of the call the event loop is running
CallerLocals ==
    [pc |-> fsPc, req |-> fsReq, cacheFresh |-> cacheFresh, year |-> fsYear,
     holidays |-> holidays, result |-> fsResult, log |-> nagerLog]

\* the locals of a call that has not been made
QuietCaller ==
    [pc |-> "idle", req |-> [days_ahead |-> 90, country_code |-> "US"],
     cacheFresh |-> FALSE, year |-> 0, holidays |-> <<>>, result |-> NoResult,
     log |-> <<>>]

\* two calls in progress: each is suspended at an await, and the event loop
\* resumes either of them; the awaited operation of the other call answers next
FestivalsSwitch ==
    /\ fsOther # CallerLocals
    /\ fsPc' = fsOther.pc
    /\ fsReq' = fsOther.req
    /\ cacheFresh' = fsOther.cacheFresh
    /\ fsYear' = fsOther.year
    /\ holidays' = fsOther.holidays
    /\ fsResult' = fsOther.result
    /\ nagerLog' = fsOther.log
    /\ fsOther' = CallerLocals
    /\ UNCHANGED <<storeVars, seedVars, clsVars, chkVars, anVars, fcVars, pfVars,
                   festivals, inLastQuarter>>

\* handleGetUpcomingFestivals not called
FestivalsQuiet ==
    /\ fsOther = QuietCaller
    /\ fsPc = "idle"
    /\ fsReq = [days_ahead |-> 90, country_code |-> "US"]
    /\ cacheFresh = FALSE
    /\ fsYear = 0
    /\ holidays = <<>>
    /\ fsResult = NoResult
    /\ nagerLog = <<>>

FestivalsIdle ==
    /\ festivals = {}
    /\ inLastQuarter = FALSE
    /\ FestivalsQuiet

-----------------------------------------------------------------------------
(* Initial stores *)

ProductDoc(name, costPrice, t) ==
    [name |-> name, costPrice |-> costPrice,
     category |-> IF name = "Fries" THEN "side" ELSE "main",
     inventory |-> [minStockDaily |-> Units(t[1]), reorderPoint |-> Units(t[2]),
                    maxStockDaily |-> Units(t[3])]]

Sale(product, date, price, quantity) ==
    [product |-> product, date |-> date, price |-> price, quantity |-> quantity,
     purchaseType |-> IF product = "Fries" THEN "Drive-thru" ELSE "In-store"]

\* the collections of at most MaxSales documents drawn from the sequence U; a
\* collection is unordered, so one sequence stands for each multiset
Collections(U) ==
    UNION {{[i \in 1 .. n |-> U[idx[i]]] :
               idx \in {f \in [1 .. n -> DOMAIN U] :
                           \A i, j \in 1 .. n : i < j => f[i] <= f[j]}}
           : n \in 0 .. MaxSales}

\* thresholds with 0 <= minStock < reorderPoint < maxStock, in whole units
SeedThresholds == {<<2, 5, 50>>, <<0, 5, 50>>, <<20, 30, 50>>, <<0, 10, 20>>}

SeedSaleUniverse ==
    <<Sale("Fries", Today - 2, 349, Units(0)),  Sale("Fries", Today - 2, 349, Units(10)),
      Sale("Fries", Today - 2, 349, Units(20)), Sale("Fries", Today - 2, 349, Units(60)),
      Sale("Fries", Today - 1, 349, Units(0)),  Sale("Fries", Today - 1, 349, Units(10)),
      Sale("Fries", Today - 1, 349, Units(20)), Sale("Fries", Today - 1, 349, Units(60)),
      Sale("Fries", Today, 349, Units(0)),      Sale("Fries", Today, 349, Units(10)),
      Sale("Fries", Today, 349, Units(20)),     Sale("Fries", Today, 349, Units(60)),
      Sale("Burgers", Today - 2, 1299, Units(10)),
      Sale("Burgers", Today - 2, 1299, Units(20) + 1),
      Sale("Burgers", Today - 1, 1299, Units(10)),
      Sale("Burgers", Today - 1, 1299, Units(20) + 1),
      Sale("Burgers", Today, 1299, Units(10) + 1)>>

SeedProducts ==
    {[p \in D |-> IF p = "Fries" THEN ProductDoc(p, 120, t)
                  ELSE ProductDoc(p, 550, <<20, 30, 50>>)]
        : D \in {{"Fries"}, {"Fries", "Burgers"}}, t \in SeedThresholds}

-----------------------------------------------------------------------------
(* Specification of the seeding run *)

InitSeed ==
    /\ sales \in Collections(SeedSaleUniverse)
    /\ products \in SeedProducts
    /\ inventory = {}
    /\ atMidnight = FALSE
    /\ seedPc = "start" /\ salesByDay = <<>> /\ inventoryDocs = <<>>
    /\ ClsIdle
    /\ CheckIdle
    /\ AnalyticsIdle
    /\ ForecastIdle
    /\ ProfitIdle
    /\ FestivalsIdle

NextSeed == SeedAggregate \/ SeedSimulateAndDelete \/ SeedInsert \/ SeedRerun

vars == <<storeVars, seedVars, clsVars, chkVars, anVars, fcVars, pfVars, fsVars>>

SpecSeed == InitSeed /\ [][NextSeed]_vars

-----------------------------------------------------------------------------
(* Specification of a seeding run over the snapshots of an earlier run *)

\* the snapshots an earlier run left, of a history that had Fries sales five
\* and two days ago
PriorInventory ==
    {[product |-> "Fries", date |-> Today - 5, stockLevel |-> Units(40),
      consumed |-> Units(10), restocked |-> 0, status |-> "green"],
     [product |-> "Fries", date |-> Today - 2, stockLevel |-> Units(35),
      consumed |-> Units(5), restocked |-> 0, status |-> "green"]}

InitReseed ==
    /\ sales \in Collections(SeedSaleUniverse)
    /\ products \in SeedProducts
    /\ inventory = PriorInventory
    /\ atMidnight = FALSE
    /\ seedPc = "start" /\ salesByDay = <<>> /\ inventoryDocs = <<>>
    /\ ClsIdle
    /\ CheckIdle
    /\ AnalyticsIdle
    /\ ForecastIdle
    /\ ProfitIdle
    /\ FestivalsIdle

SpecReseed == InitReseed /\ [][NextSeed]_vars

-----------------------------------------------------------------------------
(* Specification of the classifier on arbitrary inputs *)

ClsLevels == {Units(k) : k \in 0 .. MaxLevel}

ClsStocks == {Units(k) : k \in 0 .. MaxLevel + 1}
                \cup {Units(k) - 1 : k \in 0 .. MaxLevel + 1}

InitClassify ==
    /\ sales = <<>> /\ products = <<>> /\ inventory = {} /\ atMidnight = FALSE
    /\ SeedIdle
    /\ clsIn \in {c \in [stock : ClsStocks, minStockDaily : ClsLevels,
                          reorderPoint : ClsLevels] :
                     c.minStockDaily < c.reorderPoint}
    /\ clsOut = [seed |-> "none", check |-> "none"]
    /\ CheckIdle
    /\ AnalyticsIdle
    /\ ForecastIdle
    /\ ProfitIdle
    /\ FestivalsIdle

NextClassify == ClassifySeed \/ ClassifyCheck

SpecClassify == InitClassify /\ [][NextClassify]_vars

-----------------------------------------------------------------------------
(* Specification of check_inventory over a seeded store *)

CheckThresholds == {<<2, 5, 50>>, <<0, 5, 50>>, <<400, 500, 1200>>}

CheckSaleUniverse ==
    <<Sale("Fries", Today - 30, 349, Units(1)), Sale("Fries", Today - 30, 349, Units(2)),
      Sale("Fries", Today - 30, 349, 80),
      Sale("Fries", Today - 1, 349, Units(1)),  Sale("Fries", Today - 1, 349, Units(2)),
      Sale("Fries", Today - 1, 349, 80),
      Sale("Fries", Today, 349, Units(1)),      Sale("Fries", Today, 349, Units(2)),
      Sale("Fries", Today, 349, 80),
      Sale("Burgers", Today - 1, 1299, Units(10))>>

CheckProducts ==
    {[p \in ProductNames |-> IF p = "Fries" THEN ProductDoc(p, 120, t)
                             ELSE ProductDoc(p, 550, <<20, 30, 50>>)]
        : t \in CheckThresholds}

\* the Inventory collection as seedInventory leaves it
SeededInventory ==
    LET byDay == CHOOSE s \in SortedByDate(Groups) : TRUE
    IN  Range(SimulateProducts(ProductOrder(byDay, {}), byDay))

CheckRequests == {"all", "undefined", "Fries", "Burgers"}

InitInventory ==
    /\ \/ /\ sales \in Collections(CheckSaleUniverse)
          /\ products \in CheckProducts
          /\ inventory \in {{}, SeededInventory}
          /\ atMidnight \in BOOLEAN
       \/ /\ sales = <<>> /\ products = <<>> /\ inventory = {}   \* not seeded yet
          /\ atMidnight = FALSE
    /\ SeedIdle
    /\ ClsIdle
    /\ CheckIdle
    /\ AnalyticsIdle
    /\ ForecastIdle
    /\ ProfitIdle
    /\ FestivalsIdle

NextInventory ==
    \/ \E product \in CheckRequests : CheckCall(product)
    \/ CheckFail
    \/ CheckFindProducts
    \/ CheckGetLatest
    \/ \E name \in ProductNames : CheckProductRow(name)
    \/ CheckSummarise

SpecInventory == InitInventory /\ [][NextInventory]_vars

-----------------------------------------------------------------------------
(* Specification of get_sales_analytics *)

AnalyticsSaleUniverse ==
    <<Sale("Fries", Today - 31, 349, 80),   Sale("Fries", Today - 31, 349, Units(1)),
      Sale("Fries", Today - 1, 349, 80),    Sale("Fries", Today - 1, 349, Units(1)),
      Sale("Fries", Today - 1, 349, 300),
      Sale("Burgers", Today - 31, 1299, 80), Sale("Burgers", Today - 31, 1299, Units(1)),
      Sale("Burgers", Today - 1, 1299, 80),  Sale("Burgers", Today - 1, 1299, Units(1))>>

AnalysisTypes == AnalysisMap \cup {"by_region"}

AnalyticsDays == {0, 30}

InitAnalytics ==
    /\ sales \in Collections(AnalyticsSaleUniverse)
    /\ products = <<>> /\ inventory = {} /\ atMidnight = FALSE
    /\ SeedIdle
    /\ ClsIdle
    /\ CheckIdle
    /\ AnalyticsIdle
    /\ ForecastIdle
    /\ ProfitIdle
    /\ FestivalsIdle

NextAnalytics ==
    \/ \E t \in AnalysisTypes, d \in AnalyticsDays : AnalyticsCall(t, d)
    \/ AnalyticsAnswer
    \/ AnalyticsFail
    \/ AnalyticsReturn

SpecAnalytics == InitAnalytics /\ [][NextAnalytics]_vars

-----------------------------------------------------------------------------
(* Specification of forecast_demand *)

MaxHorizon == 3

ForecastSaleUniverse ==
    <<Sale("Fries", Today - 31, 349, Units(10)),
      Sale("Fries", Today - 6, 349, Units(10)), Sale("Fries", Today - 6, 349, 0 - Units(4)),
      Sale("Fries", Today - 5, 349, Units(3)),  Sale("Fries", Today - 5, 349, Units(0)),
      Sale("Burgers", Today - 6, 1299, Units(5))>>

ForecastProducts == {"Fries", "all"}

InitForecast ==
    /\ sales \in Collections(ForecastSaleUniverse)
    /\ products = <<>> /\ inventory = {} /\ atMidnight = FALSE
    /\ SeedIdle
    /\ ClsIdle
    /\ CheckIdle
    /\ AnalyticsIdle
    /\ ForecastIdle
    /\ ProfitIdle
    /\ FestivalsIdle

NextForecast ==
    \/ \E p \in ForecastProducts, n \in 1 .. MaxHorizon : ForecastCall(p, n)
    \/ \E w \in Fetches, st \in {"ok", "notok"} : FetchRespond(w, st)
    \/ \E w \in Fetches : FetchReject(w)
    \/ TimeoutFire
    \/ \E b \in OkBodies \cup NotOkBodies : ReadForecastBody(b)
    \/ \E b \in OkBodies \cup NotOkBodies : ReadProfitBody(b)
    \/ FallbackAnswer
    \/ FallbackFail
    \/ ForecastReturn

SpecForecast == InitForecast /\ [][NextForecast]_vars

\* forecast_demand with what the runtime and the store guarantee: an armed timer
\* fires, and the store answers the fallback's aggregation (or rejects it).  The
\* ML service guarantees nothing: an answer's headers or body may never come.
InitForecastLive ==
    /\ sales \in {<<>>, <<Sale("Fries", Today - 6, 349, Units(10))>>}
    /\ products = <<>> /\ inventory = {} /\ atMidnight = FALSE
    /\ SeedIdle
    /\ ClsIdle
    /\ CheckIdle
    /\ AnalyticsIdle
    /\ ForecastIdle
    /\ ProfitIdle
    /\ FestivalsIdle

NextForecastLive ==
    \/ \E p \in ForecastProducts : ForecastCall(p, 1)
    \/ \E w \in Fetches, st \in {"ok", "notok"} : FetchRespond(w, st)
    \/ \E w \in Fetches : FetchReject(w)
    \/ TimeoutFire
    \/ \E b \in OkBodies \cup NotOkBodies : ReadForecastBody(b)
    \/ \E b \in OkBodies \cup NotOkBodies : ReadProfitBody(b)
    \/ FallbackAnswer
    \/ FallbackFail
    \/ ForecastReturn

SpecForecastLive ==
    /\ InitForecastLive
    /\ [][NextForecastLive]_vars
    /\ WF_vars(TimeoutFire)
    /\ WF_vars(FallbackFail \/ FallbackAnswer)

-----------------------------------------------------------------------------
(* Specification of one tool call, of any of the five tools, with the failures
   of the store and of the external services *)

HandlersSaleUniverse ==
    <<Sale("Fries", Today - 1, 349, Units(2)), Sale("Burgers", Today - 3, 1299, Units(1))>>

HandlersProducts ==
    [p \in ProductNames |-> IF p = "Fries" THEN ProductDoc(p, 80, <<2, 5, 50>>)
                            ELSE ProductDoc(p, 550, <<20, 30, 50>>)]

\* the cache as a refresh for the country at `hour` left it
CachedAt(hour, countryCode) ==
    {[name |-> h.name, date |-> h.date, localName |-> h.localName,
      countryCode |-> countryCode, source |-> "nager-api",
      demandMultiplier |-> ClassifyImpact(h.name).multiplier, fetchedAt |-> hour]
        : h \in Range(NagerHolidays(0, countryCode)) \cup Range(NagerHolidays(1, countryCode))}

AllIdle ==
    chkPc = "idle" /\ anPc = "idle" /\ fcPc = "idle" /\ pfPc = "idle" /\ fsPc = "idle"

InitHandlers ==
    /\ sales \in Collections(HandlersSaleUniverse)
    /\ \/ products = <<>> /\ inventory = {}
       \/ products = HandlersProducts /\ inventory \in {{}, SeededInventory}
    /\ atMidnight = FALSE
    /\ festivals \in {{}, CachedAt(NowHour - 30, "US"), CachedAt(NowHour - 1, "US")}
    /\ inLastQuarter \in BOOLEAN
    /\ SeedIdle
    /\ ClsIdle
    /\ CheckIdle
    /\ AnalyticsIdle
    /\ ForecastIdle
    /\ ProfitIdle
    /\ FestivalsQuiet

\* a client calls one of the tools
ToolCall ==
    /\ AllIdle
    /\ \/ \E product \in {"all", "Fries"} : CheckCall(product)
       \/ \E t \in AnalysisTypes, d \in AnalyticsDays : AnalyticsCall(t, d)
       \/ \E product \in ForecastProducts : ForecastCall(product, 1)
       \/ \E product \in {"all", "Fries"}, days \in {0, 30}, include_trend \in BOOLEAN,
             group_by \in {"day", "week"} :
             ProfitCall(product, days, include_trend, group_by)
       \/ \E days_ahead \in {7, 90}, country_code \in {"US", "CA", "XX"} :
             FestivalsCall(days_ahead, country_code)

NextHandlers ==
    \/ ToolCall
    \/ CheckFindProducts
    \/ CheckGetLatest
    \/ \E name \in ProductNames : CheckProductRow(name)
    \/ CheckSummarise
    \/ CheckFail
    \/ AnalyticsAnswer
    \/ AnalyticsFail
    \/ \E w \in Fetches, st \in {"ok", "notok"} : FetchRespond(w, st)
    \/ \E w \in Fetches : FetchReject(w)
    \/ TimeoutFire
    \/ \E b \in OkBodies \cup NotOkBodies : ReadForecastBody(b)
    \/ \E b \in OkBodies \cup NotOkBodies : ReadProfitBody(b)
    \/ FallbackAnswer
    \/ FallbackFail
    \/ ProfitCostMap
    \/ ProfitBreakdown
    \/ ProfitTrend
    \/ ProfitFail
    \/ FestivalsFreshness
    \/ FestivalsFetch
    \/ FestivalsUpsert
    \/ FestivalsFind
    \/ \E error \in {"store", "network", "status", "malformed"} : FestivalsFail(error)

SpecHandlers == InitHandlers /\ [][NextHandlers]_vars

-----------------------------------------------------------------------------
(* Specification of check_inventory while the seed script is run again: the
   script and the server are two processes on one database *)

InitReseedCheck ==
    /\ sales \in {<<Sale("Fries", Today - 2, 349, Units(10))>>,
                  <<Sale("Fries", Today - 2, 349, Units(10)),
                    Sale("Burgers", Today - 1, 1299, Units(10))>>}
    /\ products = HandlersProducts
    /\ inventory \in {PriorInventory, SeededInventory}
    /\ atMidnight = FALSE
    /\ seedPc = "start" /\ salesByDay = <<>> /\ inventoryDocs = <<>>
    /\ ClsIdle
    /\ CheckIdle
    /\ AnalyticsIdle
    /\ ForecastIdle
    /\ ProfitIdle
    /\ FestivalsIdle

NextReseedCheck ==
    \/ SeedAggregate
    \/ SeedSimulateAndDelete
    \/ SeedInsert
    \/ SeedRerun
    \/ \E product \in {"all", "Fries"} : CheckCall(product)
    \/ CheckFail
    \/ CheckFindProducts
    \/ CheckGetLatest
    \/ \E name \in ProductNames : CheckProductRow(name)
    \/ CheckSummarise

SpecReseedCheck == InitReseedCheck /\ [][NextReseedCheck]_vars

-----------------------------------------------------------------------------
(* Specification of calculate_profit *)

\* sales of whole and of fractional quantities, a sale of quantity 0, a sale
\* whose revenue is under half a cent, and a sale older than 30 days
ProfitSaleUniverse ==
    <<Sale("Burgers", Today - 1, 1299, 110), Sale("Burgers", Today - 1, 1299, Units(1)),
      Sale("Fries", Today - 1, 349, Units(1)), Sale("Fries", Today - 1, 349, 0),
      Sale("Fries", Today - 2, 1, 80),         Sale("Fries", Today - 31, 349, Units(1))>>

\* the Product collection: not seeded, seeded, or seeded without Fries
ProfitProducts ==
    {<<>>, HandlersProducts, [p \in {"Burgers"} |-> HandlersProducts[p]]}

InitProfit ==
    /\ sales \in Collections(ProfitSaleUniverse)
    /\ products \in ProfitProducts
    /\ inventory = {} /\ atMidnight = FALSE
    /\ SeedIdle
    /\ ClsIdle
    /\ CheckIdle
    /\ AnalyticsIdle
    /\ ForecastIdle
    /\ ProfitIdle
    /\ FestivalsIdle

NextProfit ==
    \/ \E product \in {"all", "Fries"}, days \in {0, 30}, include_trend \in BOOLEAN,
          group_by \in {"day", "week"} :
          ProfitCall(product, days, include_trend, group_by)
    \/ ProfitCostMap
    \/ ProfitBreakdown
    \/ ProfitTrend
    \/ ProfitFail
    \/ ProfitReturn

SpecProfit == InitProfit /\ [][NextProfit]_vars

-----------------------------------------------------------------------------
(* Specification of get_upcoming_festivals over a cache left by earlier runs *)

\* the entry of a cache with a demand multiplier tuned by hand
Tuned(cache, holidayName, multiplier) ==
    {IF f.name = holidayName
     THEN [f EXCEPT !.source = "manual", !.demandMultiplier = multiplier] ELSE f
        : f \in cache}

\* a local event added by hand, which the Nager API does not list
LocalEvent ==
    [name |-> "Local Fair", date |-> Today + 3, localName |-> "Local Fair",
     countryCode |-> "US", source |-> "manual", demandMultiplier |-> 130,
     fetchedAt |-> NowHour - 100]

\* the caches of the initial states: empty; refreshed 1, 24 or 30 hours ago for
\* a country; the same with Christmas Day tuned by hand; with a local event
FestivalCaches ==
    LET refreshed == {CachedAt(NowHour - age, c) : age \in {1, 24, 30}, c \in {"US", "CA"}}
    IN  {{}, {LocalEvent}}
            \cup refreshed
            \cup {Tuned(cache, "Christmas Day", 200) : cache \in refreshed}
            \cup {cache \cup {LocalEvent} : cache \in refreshed}

InitFestivals ==
    /\ sales = <<>> /\ products = <<>> /\ inventory = {} /\ atMidnight = FALSE
    /\ festivals \in FestivalCaches
    /\ inLastQuarter \in BOOLEAN
    /\ SeedIdle
    /\ ClsIdle
    /\ CheckIdle
    /\ AnalyticsIdle
    /\ ForecastIdle
    /\ ProfitIdle
    /\ FestivalsQuiet

NextFestivals ==
    \/ \E days_ahead \in {7, 90}, country_code \in {"US", "CA", "XX"} :
          FestivalsCall(days_ahead, country_code)
    \/ FestivalsFreshness
    \/ FestivalsFetch
    \/ FestivalsUpsert
    \/ FestivalsFind
    \/ \E error \in {"store", "network", "status", "malformed"} : FestivalsFail(error)
    \/ FestivalsReturn

SpecFestivals == InitFestivals /\ [][NextFestivals]_vars

-----------------------------------------------------------------------------
(* Specification of two get_upcoming_festivals calls in progress at once, the
   store and the Nager API answering every request *)

\* caches that are stale for "US": empty, refreshed 30 hours ago, the same with
\* a multiplier tuned by hand or with a local event
StaleCaches ==
    LET old == CachedAt(NowHour - 30, "US")
    IN  {{}, old, Tuned(old, "Christmas Day", 200), old \cup {LocalEvent}}

InitFestivalsPair ==
    /\ sales = <<>> /\ products = <<>> /\ inventory = {} /\ atMidnight = FALSE
    /\ festivals \in StaleCaches
    /\ inLastQuarter \in BOOLEAN
    /\ SeedIdle
    /\ ClsIdle
    /\ CheckIdle
    /\ AnalyticsIdle
    /\ ForecastIdle
    /\ ProfitIdle
    /\ FestivalsQuiet

NextFestivalsPair ==
    \/ \E days_ahead \in {7, 90} : FestivalsCall(days_ahead, "US")
    \/ FestivalsFreshness
    \/ FestivalsFetch
    \/ FestivalsUpsert
    \/ FestivalsFind
    \/ FestivalsSwitch

SpecFestivalsPair == InitFestivalsPair /\ [][NextFestivalsPair]_vars

-----------------------------------------------------------------------------
(* CLAIMS *)

\* the snapshots seedInventory has built or written
Snapshots == Range(inventoryDocs) \cup inventory

\* C4: for every product and every day of the simulated series the stock level
\* the simulation writes is non-negative, whatever the daily consumption
\* (larger than maxStockDaily included) and the thresholds.
C4_StockNonNegative == \A d \in Snapshots : d.stockLevel >= 0

\* a written series in which one day's consumption exceeded maxStockDaily
C4_Witness ==
    /\ seedPc = "done"
    /\ \E d \in inventory :
          /\ d.consumed > products[d.product].inventory.maxStockDaily
          /\ d.stockLevel >= 0

\* The reference walk of C5, from the sale documents: the days of a product, the
\* stock before a day, after its sales, and after the restock decision.
C5_Days(p) == {sales[i].date : i \in {j \in DOMAIN sales : sales[j].product = p}}

RECURSIVE C5_After(_, _)
C5_Before(p, d) ==
    LET earlier == {e \in C5_Days(p) : e < d}
    IN  IF earlier = {} THEN products[p].inventory.maxStockDaily
        ELSE C5_After(p, CHOOSE e \in earlier : \A f \in earlier : f <= e)

C5_AfterSale(p, d) == C5_Before(p, d) - TotalQuantity(p, d)

C5_After(p, d) ==
    IF C5_AfterSale(p, d) < products[p].inventory.reorderPoint
    THEN products[p].inventory.maxStockDaily
    ELSE C5_AfterSale(p, d)

C5_Restocked(p, d) ==
    IF C5_AfterSale(p, d) < products[p].inventory.reorderPoint
    THEN products[p].inventory.maxStockDaily - C5_AfterSale(p, d)
    ELSE 0

\* scenario A: Fries sold 10, 20 and 0 on three consecutive days, thresholds
\* minStock 2, reorderPoint 5, maxStock 50
C5_ScenarioA ==
    /\ sales = <<Sale("Fries", Today - 2, 349, Units(10)),
                 Sale("Fries", Today - 1, 349, Units(20)),
                 Sale("Fries", Today, 349, Units(0))>>
    /\ products["Fries"].inventory =
          [minStockDaily |-> Units(2), reorderPoint |-> Units(5),
           maxStockDaily |-> Units(50)]

\* C5: the simulation walks each product's days in ascending date order from
\* stock = maxStockDaily; each day it subtracts the day's summed quantity and,
\* exactly when the result is strictly below reorderPoint, sets the stock to
\* maxStockDaily and records restocked = maxStockDaily - (stock after the
\* subtraction), else restocked = 0 (values stored rounded to 2 decimals).
\* Scenario A gives stock levels [40, 20, 20], all green.
C5_SimulationWalk ==
    seedPc \in {"deleted", "done"} =>
        /\ \A i, j \in DOMAIN inventoryDocs :
              (i < j /\ inventoryDocs[i].product = inventoryDocs[j].product)
                  => inventoryDocs[i].date < inventoryDocs[j].date
        /\ \A i \in DOMAIN inventoryDocs :
              LET doc == inventoryDocs[i]
              IN  /\ doc.product \in DOMAIN products
                  /\ doc.date \in C5_Days(doc.product)
                  /\ doc.consumed = Round2(TotalQuantity(doc.product, doc.date))
                  /\ doc.stockLevel = Round2(C5_After(doc.product, doc.date))
                  /\ doc.restocked = Round2(C5_Restocked(doc.product, doc.date))
        /\ \A p \in DOMAIN products : \A d \in C5_Days(p) :
              \E i \in DOMAIN inventoryDocs :
                  inventoryDocs[i].product = p /\ inventoryDocs[i].date = d
        /\ C5_ScenarioA =>
              /\ [i \in DOMAIN inventoryDocs |-> inventoryDocs[i].stockLevel]
                    = <<Units(40), Units(20), Units(20)>>
              /\ [i \in DOMAIN inventoryDocs |-> inventoryDocs[i].status]
                    = <<"green", "green", "green">>

\* scenario A has been simulated and written
C5_Witness ==
    /\ seedPc = "done"
    /\ C5_ScenarioA
    /\ Len(inventoryDocs) = 3
    /\ inventoryDocs[3].stockLevel = Units(20)
    /\ inventoryDocs[3].restocked = 0

\* the reference classifier of the specification
C6_Classify(stock, minStock, reorderPoint) ==
    CASE stock < minStock -> "red"
      [] minStock <= stock /\ stock < reorderPoint -> "yellow"
      [] OTHER -> "green"

C6_Bands == {"green", "yellow", "red"}

\* C6: for every stock level and thresholds with 0 <= minStock < reorderPoint the
\* status of the offline simulation and the status of the online inventory check
\* are the same band, and both are the reference classifier's.
C6_SameBand ==
    LET ref == C6_Classify(clsIn.stock, clsIn.minStockDaily, clsIn.reorderPoint)
    IN  /\ clsOut.seed \in C6_Bands => clsOut.seed = ref
        /\ clsOut.check \in C6_Bands => clsOut.check = ref
        /\ (clsOut.seed \in C6_Bands /\ clsOut.check \in C6_Bands)
              => clsOut.seed = clsOut.check

\* both callers classified a stock that sits exactly on the red threshold
C6_Witness ==
    /\ clsIn.stock = clsIn.minStockDaily
    /\ clsIn.minStockDaily > 0
    /\ clsOut.seed = "yellow"
    /\ clsOut.check = "yellow"

\* The consumption window of C7 and C8, from the sale documents: the product's
\* sales of the last 30 days, their total quantity and their distinct days.
C8_Window(p) ==
    {i \in DOMAIN sales : sales[i].product = p /\ InLookback(sales[i].date, 30)}

C8_Total(p) == SumOver([i \in C8_Window(p) |-> sales[i].quantity], C8_Window(p))

C8_DaysWithSales(p) == Cardinality({sales[i].date : i \in C8_Window(p)})

\* C7 as stated: days until stockout is stock / avgDailyConsumption itself, capped
\* at 999, when the average is positive, and 999 when the average is 0.
C7_ExactQuotientCapped ==
    \A p \in DOMAIN rows :
        LET r == rows[p]
        IN  IF r.avg_daily_consumption > 0
            THEN IF r.stock_level >= 999 * r.avg_daily_consumption
                 THEN r.days_until_stockout = 999
                 ELSE r.days_until_stockout * r.avg_daily_consumption = r.stock_level
            ELSE r.days_until_stockout = 999

\* C7 (amended): days until stockout is stock / avgDailyConsumption rounded to the
\* nearest whole number of days (a half up) and capped at 999 when the average is
\* positive, and exactly 999 when the average is 0; it is always a number in
\* 0 .. 999.
C7_RoundedQuotientCapped ==
    \A p \in DOMAIN rows :
        LET r == rows[p]
            days == r.days_until_stockout
            avg == r.avg_daily_consumption
        IN  /\ days \in 0 .. 999
            /\ avg >= 0
            /\ avg = 0 => days = 999
            /\ avg > 0 =>
                  IF 2 * r.stock_level >= (2 * 999 - 1) * avg
                  THEN days = 999
                  ELSE /\ 2 * days * avg > 2 * r.stock_level - avg
                       /\ 2 * days * avg <= 2 * r.stock_level + avg
            /\ C8_Window(p) = {} => days = 999

\* a result in which one product's quotient was capped and another's was rounded
C7_Witness ==
    /\ chkPc = "done"
    /\ \E p \in DOMAIN rows :
          /\ rows[p].avg_daily_consumption > 0
          /\ rows[p].stock_level > 999 * rows[p].avg_daily_consumption
          /\ rows[p].days_until_stockout = 999
    /\ \E p \in DOMAIN rows :
          /\ rows[p].avg_daily_consumption > 0
          /\ rows[p].days_until_stockout < 999
          /\ rows[p].days_until_stockout * rows[p].avg_daily_consumption
                # rows[p].stock_level

C9_NonGreen(results) == {i \in DOMAIN results : results[i].status # "green"}

\* C9: in every successful inventory check result green + yellow + red equals
\* total_products, each count is the number of product rows of that status, the
\* alerts hold exactly one entry per non-green product, and with no such product
\* the single all-healthy marker: the alerts are never empty.
C9_SummaryCounts ==
    chkResult.kind = "inventory" =>
        LET results == chkResult.products
            sm == chkResult.summary
            count(st) == Cardinality({i \in DOMAIN results : results[i].status = st})
        IN  /\ sm.total_products = Len(results)
            /\ sm.green + sm.yellow + sm.red = sm.total_products
            /\ sm.green = count("green")
            /\ sm.yellow = count("yellow")
            /\ sm.red = count("red")
            /\ Len(sm.alerts) > 0
            /\ IF C9_NonGreen(results) = {}
               THEN sm.alerts = <<[product |-> "none", status |-> "well-stocked"]>>
               ELSE /\ Len(sm.alerts) = Cardinality(C9_NonGreen(results))
                    /\ \A i \in C9_NonGreen(results) :
                          Cardinality({k \in DOMAIN sm.alerts :
                                          sm.alerts[k] = results[i]}) = 1

\* a result over two products, one healthy and one critical
C9_Witness ==
    /\ chkPc = "done"
    /\ chkResult.kind = "inventory"
    /\ chkResult.summary.total_products = 2
    /\ chkResult.summary.green = 1
    /\ chkResult.summary.red = 1
    /\ Len(chkResult.summary.alerts) = 1
    /\ chkResult.summary.alerts[1].status = "red"

\* the two responses of C10 were computed over the same date-filtered, non-empty set
C10_SameSet ==
    /\ anLog["overview"].days >= 0
    /\ anLog["overview"].days = anLog["by_product"].days
    /\ DateFilterMatch(anLog["overview"].days) # {}

C10_RowSum ==
    SumSeq([k \in DOMAIN anLog["by_product"].data |->
               anLog["by_product"].data[k].revenue])

\* C10 as stated: the by_product revenues sum to the overview's total_revenue.
C10_RevenueIdentity ==
    C10_SameSet => C10_RowSum = anLog["overview"].data.total_revenue

\* the products of the set whose revenue is not a whole number of cents
C10_FractionalProducts ==
    LET I == DateFilterMatch(anLog["overview"].days)
    IN  {n \in {sales[i].product : i \in I} :
            SumRevenue({i \in I : sales[i].product = n}) % 200 # 0}

\* C10 (amended): the by_product revenues sum to the overview's total_revenue up
\* to the rounding of each figure to 2 decimals: the two differ by at most half a
\* cent per product row plus half a cent, and are equal when every product's
\* revenue over the set is a whole number of cents.
C10_RevenueIdentityRounded ==
    C10_SameSet =>
        LET total == anLog["overview"].data.total_revenue
            k == Len(anLog["by_product"].data)
        IN  /\ C10_RowSum - total <= 100 * (k + 1)
            /\ total - C10_RowSum <= 100 * (k + 1)
            /\ C10_FractionalProducts = {} => C10_RowSum = total

\* both analyses answered over a set of two products, each with a revenue that
\* is not a whole number of cents
C10_Witness ==
    /\ C10_SameSet
    /\ Len(anLog["by_product"].data) = 2
    /\ Cardinality(C10_FractionalProducts) = 2
    /\ C10_RowSum # anLog["overview"].data.total_revenue

\* the primary path of the finished call went through: both answers came with a
\* success status before the timeout and both bodies were parsed to objects
C1_BothSucceeded ==
    /\ fetchSt["forecast"] = "ok" /\ fetchSt["profit"] = "ok"
    /\ timeout = "cleared"
    /\ forecastData \in {"full", "bare"}
    /\ profitData \in {"full", "bare"}

\* the payload holds nothing but what the fallback produces
C1_FallbackOnly ==
    \/ fcResult.isError
    \/ /\ fcResult.kind = "forecast"
       /\ \/ DOMAIN fcResult.data = {"error", "suggestion"}
          \/ /\ DOMAIN fcResult.data = {"metadata", "summary", "daily_forecast"}
             /\ fcResult.data.metadata.model = "moving_average_fallback"
             /\ fcResult.data.metadata.ml_service = "disconnected"
             /\ \A i \in DOMAIN fcResult.data.daily_forecast :
                   /\ fcResult.data.daily_forecast[i].confidence = "low"
                   /\ "confidence_low" \notin DOMAIN fcResult.data.daily_forecast[i]
                   /\ "projected_profit" \notin DOMAIN fcResult.data.daily_forecast[i]

\* C1: a finished forecast_demand call returns the primary (prophet_ml) result,
\* formatted from the two ML answers alone, only when both calls completed with a
\* success status before the timeout; in every other case (a call rejected, was
\* aborted by the timeout, answered with a non-success status or with a body that
\* cannot be parsed) callMLService returned null, the fallback ran and the result
\* holds fallback data only.
C1_AllOrNothing ==
    fcPc = "done" =>
        IF C1_BothSucceeded
        THEN /\ mlResult.state = "value"
             /\ fcResult = ForecastPayload(
                    FormatMLResponse(fcReq.product, fcReq.days_ahead,
                        ForecastJson(forecastData, fcReq.product, fcReq.days_ahead),
                        ProfitJson(profitData, fcReq.product, fcReq.days_ahead)))
             /\ fcResult.data.metadata.model = "prophet_ml"
        ELSE /\ mlResult.state = "null"
             /\ C1_FallbackOnly

\* partial success: the forecast call answered with a success status, the profit
\* call was aborted by the timeout, and the call returned a fallback forecast
C1_Witness ==
    /\ fcPc = "done"
    /\ fetchSt["forecast"] = "ok" /\ fetchSt["profit"] = "aborted"
    /\ timeout = "fired"
    /\ ~fcResult.isError
    /\ "metadata" \in DOMAIN fcResult.data
    /\ fcResult.data.metadata.model = "moving_average_fallback"

\* the sales in the fallback's 30-day lookback for the requested product
C2_Lookback ==
    {i \in DOMAIN sales :
        /\ InLookback(sales[i].date, 30)
        /\ fcReq.product = "all" \/ sales[i].product = fcReq.product}

\* the fallback ran and returned its result
C2_FallbackRan == fcPc = "done" /\ mlResult.state = "null" /\ ~fcResult.isError

\* C2: whenever the fallback forecast runs with at least one transaction in its
\* 30-day lookback, the result has exactly days_ahead daily_forecast entries, every
\* predicted_quantity is >= 0, total_predicted_quantity is the sum of the entries'
\* predicted_quantity, and the result is tagged low confidence with the ML service
\* marked disconnected.
C2_FallbackOutput ==
    (C2_FallbackRan /\ C2_Lookback # {}) =>
        /\ DOMAIN fcResult.data = {"metadata", "summary", "daily_forecast"}
        /\ Len(fcResult.data.daily_forecast) = fcReq.days_ahead
        /\ \A i \in DOMAIN fcResult.data.daily_forecast :
              fcResult.data.daily_forecast[i].predicted_quantity >= 0
        /\ fcResult.data.summary.total_predicted_quantity =
              SumSeq([i \in DOMAIN fcResult.data.daily_forecast |->
                         fcResult.data.daily_forecast[i].predicted_quantity])
        /\ fcResult.data.metadata.confidence = "low"
        /\ fcResult.data.metadata.ml_service = "disconnected"
        /\ fcResult.data.metadata.model = "moving_average_fallback"

\* a fallback forecast over several days, one of them clamped to 0 and one positive
C2_Witness ==
    /\ C2_FallbackRan /\ C2_Lookback # {}
    /\ fcReq.days_ahead >= 2
    /\ \E i, j \in DOMAIN fcResult.data.daily_forecast :
          /\ fcResult.data.daily_forecast[i].predicted_quantity = 0
          /\ fcResult.data.daily_forecast[j].predicted_quantity > 0

\* the five public operations: where each handler stands and what it returned
C3_Tools ==
    [forecast_demand |-> [pc |-> fcPc, result |-> fcResult],
     check_inventory |-> [pc |-> chkPc, result |-> chkResult],
     calculate_profit |-> [pc |-> pfPc, result |-> pfResult],
     get_upcoming_festivals |-> [pc |-> fsPc, result |-> fsResult],
     get_sales_analytics |-> [pc |-> anPc, result |-> anResult]]

\* the payloads that report a failure
C3_FailureKinds == {"error", "not-found", "unknown-type"}

\* C3: each of the five public operations, once finished, has returned a
\* structured payload, whatever failed inside it (a store query, an external
\* service, malformed data): no exception leaves the handler, and a payload that
\* reports a failure carries the error indicator isError (and no other does).
C3_ErrorBoundary ==
    \A t \in DOMAIN C3_Tools :
        C3_Tools[t].pc = "done" =>
            /\ C3_Tools[t].result.kind \notin {"exception", "none"}
            /\ C3_Tools[t].result.isError <=> C3_Tools[t].result.kind \in C3_FailureKinds

\* the next-year fetch of a festival refresh answered with a non-2xx status after
\* the current year was upserted, and the call returned the error payload
C3_Witness ==
    /\ fsPc = "done"
    /\ fsYear = 1
    /\ festivals # {}
    /\ fsResult.kind = "error" /\ fsResult.error = "status"
    /\ fsResult.isError

\* the documents of product `name` in the scope of the finished profit call
C11_Scope(name) ==
    {i \in ProfitMatch(pfReq.product, pfReq.days) : sales[i].product = name}

\* the cost of the goods sold in that scope, before rounding
C11_Cogs(name) == CostOf(costMap, name).costPrice * SumQuantity(C11_Scope(name))

C11_Rows ==
    IF pfPc = "done" /\ ~pfResult.isError THEN Range(pfResult.data.product_breakdown)
    ELSE {}

\* C11 as stated: in every product row of the profit breakdown gross_profit is
\* revenue - cost_of_goods exactly, and margin_percent is 0 whenever revenue is 0.
C11_ProfitIdentity ==
    \A r \in C11_Rows :
        /\ r.gross_profit = r.revenue - r.cost_of_goods
        /\ r.revenue = 0 => r.margin_percent = 0

\* C11 (amended): in every product row gross_profit is revenue - cost_of_goods
\* up to the rounding of each of the three figures to 2 decimals: they differ by
\* at most one cent, and are equal when the product's revenue and cost of goods
\* are whole cents before rounding; margin_percent is 0 whenever the product's
\* revenue before rounding is not positive.
C11_ProfitIdentityRounded ==
    \A r \in C11_Rows :
        LET revenue == SumRevenue(C11_Scope(r.product))
            cogs == C11_Cogs(r.product)
            gap == r.gross_profit - (r.revenue - r.cost_of_goods)
        IN  /\ gap \in {-1, 0, 1}
            /\ revenue % 200 = 0 /\ cogs % 200 = 0 => gap = 0
            /\ revenue <= 0 => r.margin_percent = 0

\* a breakdown with a row whose three rounded figures are one cent apart, and a
\* row of whole cents
C11_Witness ==
    /\ \E r \in C11_Rows : r.gross_profit # r.revenue - r.cost_of_goods
    /\ \E r \in C11_Rows :
          /\ SumRevenue(C11_Scope(r.product)) % 200 = 0
          /\ r.cost_of_goods > 0
          /\ r.gross_profit = r.revenue - r.cost_of_goods

C12_SameKey(f, g) == f.name = g.name /\ f.date = g.date

\* C12: a festival cache refresh preserves the demand multiplier (and the manual
\* source tag) that an existing (name, date) entry had before the refresh: no
\* step changes the demandMultiplier of an entry, nor the source of a manual one.
C12_MultiplierPreserved ==
    [][\A f \in festivals : \A g \in festivals' :
          C12_SameKey(f, g) =>
              /\ g.demandMultiplier = f.demandMultiplier
              /\ f.source = "manual" => g.source = "manual"]_vars

\* the refresh is about to upsert a holiday whose entry was tuned by hand
C12_Witness ==
    /\ fsPc = "upsert"
    /\ \E f \in festivals :
          /\ C12_SameKey(f, Head(holidays))
          /\ f.source = "manual"
          /\ f.demandMultiplier # ClassifyImpact(f.name).multiplier

C13_OnePerKey == \A f, g \in festivals : C12_SameKey(f, g) => f = g

\* one upsert of the refresh has answered
C13_Upserted == fsPc = "upsert" /\ holidays' = Tail(holidays)

C14_Ages(countryCode) ==
    {NowHour - f.fetchedAt : f \in {g \in festivals : g.countryCode = countryCode}}

\* the years a refresh has to fetch
C14_YearsDue == IF inLastQuarter THEN <<0, 1>> ELSE <<0>>

\* the freshness gate: an external fetch is in progress only for a stale cache;
\* when the store is queried, a fresh cache has caused no external request, and
\* a stale one has had every holiday of the years due fetched and upserted
C14_Gate ==
    /\ fsPc = "freshness" => nagerLog = <<>>
    /\ fsPc \in {"fetch", "upsert"} => ~cacheFresh
    /\ fsPc = "find" \/ (fsPc = "done" /\ ~fsResult.isError) =>
          IF cacheFresh THEN nagerLog = <<>>
          ELSE /\ nagerLog = C14_YearsDue
               /\ \A year \in Range(nagerLog) :
                     \A h \in Range(NagerHolidays(year, fsReq.country_code)) :
                         \E f \in festivals :
                             /\ C12_SameKey(f, h)
                             /\ f.countryCode = fsReq.country_code
                             /\ f.fetchedAt = NowHour

\* the freshness check has answered
C14_Checked == fsPc = "freshness" /\ fsPc' # "done"

C15_Labelled(data) == {"error", "suggestion"} \subseteq DOMAIN data

\* C15: when no transaction exists in the requested scope, each finished query
\* (sales analytics, profit, fallback forecast) returns a result labelled as
\* no-data, with a suggestion to seed or ingest data.
C15_NoDataLabelled ==
    /\ anPc = "done" /\ anResult.kind = "analytics" /\ DateFilterMatch(anReq.days) = {}
           => anReq.analysis_type = "overview" /\ C15_Labelled(anResult.data)
    /\ pfPc = "done" /\ pfResult.kind = "profit"
                     /\ ProfitMatch(pfReq.product, pfReq.days) = {}
           => C15_Labelled(pfResult.data)
    /\ fcPc = "done" /\ fcResult.kind = "forecast" /\ mlResult.state = "null"
                     /\ FallbackMatch(fcReq.product) = {}
           => C15_Labelled(fcResult.data)

\* a profit call over a scope without transactions has returned
C15_Witness ==
    /\ pfPc = "done" /\ pfResult.kind = "profit"
    /\ ProfitMatch(pfReq.product, pfReq.days) = {}
    /\ pfResult.data.totals.revenue = 0
    /\ pfResult.data.product_breakdown = <<>>

\* the output of the simulation when the store returns the groups in order s
C16_Output(s) == SimulateProducts(ProductOrder(s, {}), s)

\* C16: a finished simulation's output is the output of every other run on the
\* same transactions and configuration, whatever order the store returns the
\* groups of one date in: the same records, with the same values, in the same
\* order.
C16_Deterministic ==
    seedPc \in {"deleted", "done"} =>
        \A s \in SortedByDate(Groups) : C16_Output(s) = inventoryDocs

\* the records of every run are the same, as a set
C16_SameRecords ==
    seedPc \in {"deleted", "done"} =>
        \A s \in SortedByDate(Groups) : Range(C16_Output(s)) = Range(inventoryDocs)

\* a finished run over two configured products whose first sales share a date
C16_Witness ==
    /\ seedPc = "done"
    /\ Len(inventoryDocs) >= 2
    /\ inventoryDocs[1].product = "Fries"
    /\ \E k \in DOMAIN inventoryDocs :
          /\ inventoryDocs[k].product = "Burgers"
          /\ inventoryDocs[k].date = inventoryDocs[1].date
    /\ \E s \in SortedByDate(Groups) : C16_Output(s) # inventoryDocs

\* the products with a sale in the fallback's lookback window
C17_Scope == {sales[i].product : i \in FallbackMatch("all")}

\* the fallback has answered a request for product "all" from sales data
C17_FallbackAll ==
    /\ C2_FallbackRan
    /\ fcReq.product = "all"
    /\ C17_Scope # {}

\* C17: a fallback forecast for product "all" returns a forecast per product,
\* each computed by the single-product algorithm from that product's own sales,
\* and a combined-profit summary across the products.
C17_AllPerProduct ==
    C17_FallbackAll =>
        /\ {"product_summaries", "combined_profit"} \subseteq DOMAIN fcResult.data
        /\ DOMAIN fcResult.data.product_summaries = C17_Scope
        /\ \A p \in C17_Scope :
              fcResult.data.product_summaries[p].total_predicted_quantity
                  \in {MovingAverageFallback(p, fcReq.days_ahead, variance)
                           .summary.total_predicted_quantity
                          : variance \in [Horizon(fcReq.days_ahead) -> Variances]}

\* the fallback has answered "all" over sales of two products with one forecast
C17_Witness ==
    /\ C17_FallbackAll
    /\ C17_Scope = {"Fries", "Burgers"}
    /\ fcResult.data.metadata.product = "all"
    /\ Len(fcResult.data.daily_forecast) = fcReq.days_ahead

\* the callbacks of productDocs.map that have not returned their row yet
C18_Outstanding == Range(productDocs) \ DOMAIN rows

\* C18: in an inventory check the per-product computations are all outstanding
\* at once (each can finish next, whichever siblings have finished), the result
\* is built only when every one of them has returned, and each row is what the
\* computation of that product yields on its own, under every interleaving.
C18_ConcurrentRows ==
    /\ chkPc = "rows" =>
          /\ \A name \in C18_Outstanding : ENABLED CheckProductRow(name)
          /\ \A name \in DOMAIN rows : rows[name] = ProductRow(name, latestInventory)
    /\ chkPc = "done" /\ chkResult.kind = "inventory" =>
          /\ C18_Outstanding = {}
          /\ Len(chkResult.products) = Len(productDocs)
          /\ \A i \in DOMAIN productDocs :
                chkResult.products[i] = ProductRow(productDocs[i], latestInventory)

\* of two products the second's computation has returned first
C18_Witness ==
    /\ chkPc = "rows"
    /\ Len(productDocs) = 2
    /\ DOMAIN rows = {productDocs[2]}
    /\ rows[productDocs[2]].avg_daily_consumption > 0
    /\ ENABLED CheckProductRow(productDocs[1])

\* the (product, day) pairs with transactions of a configured product
C19_Keys == {k \in GroupKeys : k[1] \in DOMAIN products}

\* C19: after a completed simulation run the snapshot store holds exactly the
\* snapshots computed from the current transactions and configuration, one per
\* (product, day) with transactions: no snapshot of an earlier run survives.
C19_FullReplace ==
    seedPc = "done" =>
        /\ \A s \in SortedByDate(Groups) : inventory = Range(C16_Output(s))
        /\ {<<d.product, d.date>> : d \in inventory} = C19_Keys
        /\ \A d, e \in inventory : d.product = e.product /\ d.date = e.date => d = e

\* a run has completed over a store that held snapshots of an earlier run, one
\* of a day that has no transactions any more and one of a day that still has
C19_Witness ==
    /\ seedPc = "done"
    /\ \E d \in PriorInventory : <<d.product, d.date>> \notin C19_Keys
    /\ \E d \in PriorInventory : <<d.product, d.date>> \in C19_Keys
    /\ PriorInventory \cap inventory = {}
    /\ Cardinality(inventory) >= 2

\* the daily totals of the fallback's window that fall on weekday dow
C20_Bucket(dow) == SelectSeq(DailyData(fcReq.product), LAMBDA d : d.dayOfWeek = dow)

C20_BucketQty(dow) ==
    SumSeq([k \in DOMAIN C20_Bucket(dow) |-> C20_Bucket(dow)[k].dailyQty])

C20_TotalQty ==
    SumSeq([k \in DOMAIN DailyData(fcReq.product) |-> DailyData(fcReq.product)[k].dailyQty])

\* (average quantity on the weekday) / (overall average daily quantity), in
\* hundredths
C20_Multiplier(dow) ==
    MathRound(100 * C20_BucketQty(dow) * Len(DailyData(fcReq.product)),
              Len(C20_Bucket(dow)) * C20_TotalQty)

\* 0.9 and 1.1 times overallAverage x multiplier, rounded outwards to whole
\* units and not below 0
C20_Low(dow) ==
    MathMax0((9 * C20_TotalQty * C20_Multiplier(dow))
                 \div (200000 * Len(DailyData(fcReq.product))))

C20_High(dow) ==
    MathMax0(0 - ((0 - 11 * C20_TotalQty * C20_Multiplier(dow))
                      \div (200000 * Len(DailyData(fcReq.product)))))

\* the days of a finished fallback forecast whose weekday was observed in the
\* lookback, the overall average being positive
C20_ObservedDays ==
    IF C2_FallbackRan /\ DailyData(fcReq.product) # <<>> /\ C20_TotalQty > 0
    THEN {i \in DOMAIN fcResult.data.daily_forecast :
             C20_Bucket(DayOfWeek(Today + i)) # <<>>}
    ELSE {}

\* C20: in the fallback forecast every day whose weekday was observed in the
\* lookback has a predicted_quantity between 0.9 and 1.1 times overallAverage x
\* (weekday average / overall average); a weekday whose observed average is 0
\* yields predicted quantity 0.
C20_WeekdayMultiplier ==
    \A i \in C20_ObservedDays :
        LET dow == DayOfWeek(Today + i)
            predicted == fcResult.data.daily_forecast[i].predicted_quantity
        IN  /\ C20_Low(dow) <= predicted /\ predicted <= C20_High(dow)
            /\ C20_BucketQty(dow) = 0 => predicted = 0

\* a fallback forecast with a day whose weekday was observed with average 0 and
\* a day whose weekday was observed with a positive average
C20_Witness ==
    /\ \E i \in C20_ObservedDays :
          /\ C20_BucketQty(DayOfWeek(Today + i)) = 0
          /\ fcResult.data.daily_forecast[i].predicted_quantity > 0
    /\ \E i \in C20_ObservedDays :
          /\ C20_BucketQty(DayOfWeek(Today + i)) > 0
          /\ fcResult.data.daily_forecast[i].predicted_quantity > 0

\* the trend rows of a finished profit call that asked for the trend
C21_Trend ==
    IF pfPc = "done" /\ ~pfResult.isError /\ pfReq.include_trend
    THEN pfResult.data.profit_trend ELSE <<>>

\* the documents of product `name` in the call's scope that fall in `period`
C21_Sold(period, name) ==
    {i \in ProfitMatch(pfReq.product, pfReq.days) :
        /\ PeriodOf(sales[i].date, pfReq.group_by) = period
        /\ sales[i].product = name}

\* the product's own costPrice in the configuration (0 for a product that has none)
C21_CostPrice(name) == IF name \in DOMAIN products THEN products[name].costPrice ELSE 0

\* the sum over products of costPrice times the quantity sold in the period
C21_Cost(period) ==
    SumOver([n \in ProductNames |->
                C21_CostPrice(n) * SumQuantity(C21_Sold(period, n))], ProductNames)

C21_Revenue(period) ==
    SumOver([n \in ProductNames |-> SumRevenue(C21_Sold(period, n))], ProductNames)

\* C21: in every period of the profit trend cost_of_goods is the sum over
\* products of the product's own costPrice times the quantity of that product
\* sold in the period, and gross_profit is the period's revenue minus that cost
\* (each figure rounded to 2 decimals); there is one row per period that has
\* sales in scope, in ascending order.
C21_TrendPerProductCost ==
    /\ \A k \in DOMAIN C21_Trend :
          LET r == C21_Trend[k]
          IN  /\ r.cost_of_goods = MathRound(C21_Cost(r.period), 200)
              /\ r.gross_profit =
                     MathRound(C21_Revenue(r.period) - C21_Cost(r.period), 200)
              /\ r.revenue = MathRound(C21_Revenue(r.period), 200)
              /\ \A j \in 1 .. k - 1 : C21_Trend[j].period < r.period
    /\ pfPc = "done" /\ ~pfResult.isError /\ pfReq.include_trend
          => {C21_Trend[k].period : k \in DOMAIN C21_Trend}
                 = {PeriodOf(sales[i].date, pfReq.group_by) :
                        i \in ProfitMatch(pfReq.product, pfReq.days)}

\* a trend with a period in which two products of different cost prices were
\* sold in different quantities, so that one rate applied to the period's total
\* quantity gives another cost
C21_Witness ==
    \E k \in DOMAIN C21_Trend :
        LET period == C21_Trend[k].period
        IN  /\ \A n \in ProductNames : SumQuantity(C21_Sold(period, n)) > 0
            /\ C21_CostPrice("Burgers") # C21_CostPrice("Fries")
            /\ SumQuantity(C21_Sold(period, "Burgers"))
                   # SumQuantity(C21_Sold(period, "Fries"))
            /\ C21_Trend[k].cost_of_goods > 0

\* the products sold in the scope of the profit call that the Product collection
\* does not hold
C22_Unconfigured ==
    {sales[i].product : i \in ProfitMatch(pfReq.product, pfReq.days)} \ DOMAIN products

\* the documents in the scope of the profit call of the configured products
C22_ConfiguredScope ==
    {i \in ProfitMatch(pfReq.product, pfReq.days) : sales[i].product \in DOMAIN products}

\* C22: in a batch computation that joins transactions with the product
\* configuration a product sold but not configured is skipped: the finished
\* profit call has no breakdown row for it, its units and revenue are not in the
\* totals, and its revenue is in no period of the trend.
C22_UnconfiguredSkipped ==
    pfPc = "done" /\ ~pfResult.isError =>
        /\ \A r \in Range(pfResult.data.product_breakdown) : r.product \in DOMAIN products
        /\ pfResult.data.totals.units_sold = SumQuantity(C22_ConfiguredScope)
        /\ pfResult.data.totals.orders = Cardinality(C22_ConfiguredScope)
        /\ pfReq.include_trend =>
              \A k \in DOMAIN pfResult.data.profit_trend :
                  LET r == pfResult.data.profit_trend[k]
                      J == {i \in C22_ConfiguredScope :
                               PeriodOf(sales[i].date, pfReq.group_by) = r.period}
                  IN  r.revenue = MathRound(SumRevenue(J), 200)

\* the same for the inventory simulation: no snapshot of a product that is not
\* configured, and a finished simulation has the snapshots of every configured
\* product that was sold
C22_SimulationSkips ==
    /\ \A d \in Snapshots : d.product \in DOMAIN products
    /\ seedPc \in {"deleted", "done"} =>
          \A k \in GroupKeys :
              k[1] \in DOMAIN products
                  => \E d \in Range(inventoryDocs) : d.product = k[1] /\ d.date = k[2]

\* a finished profit call over sales of a configured product and of a product
\* that is not configured, with a breakdown row for each
C22_Witness ==
    /\ pfPc = "done" /\ ~pfResult.isError
    /\ \E r \in Range(pfResult.data.product_breakdown) :
          /\ r.product \in C22_Unconfigured
          /\ r.units_sold > 0
          /\ r.cost_of_goods = 0
          /\ r.category = "unknown"
    /\ \E r \in Range(pfResult.data.product_breakdown) : r.product \in DOMAIN products

\* a call that started a refresh and returned an error
C23_RefreshFailed == fsPc = "done" /\ fsResult.isError /\ nagerLog # <<>>

\* C23: when a refresh attempt fails at any point (a fetch answers with a
\* non-2xx status, an upsert fails part-way) the call returns an error result
\* and the cache of the country is still stale, so that the freshness check of
\* the next call for the country, which reads the same store, starts the
\* refresh again.
C23_FailedRefreshStaysStale ==
    /\ fsPc = "done" /\ nagerLog # <<>> /\ fsResult.kind # "festivals" => fsResult.isError
    /\ C23_RefreshFailed => ~IsCacheFresh(fsReq.country_code)

\* the part of C23 that holds: a refresh that fails at the fetch of the current
\* year has written nothing, and the cache is still stale
C23_FirstFetchFailureStale ==
    C23_RefreshFailed /\ nagerLog = <<0>> /\ fsResult.error \in {"network", "status"}
        => ~IsCacheFresh(fsReq.country_code)

\* a refresh that failed after its first upsert: the freshness check now
\* answers fresh although a holiday the source lists for the country was not
\* written by this refresh
C23_Witness ==
    /\ C23_RefreshFailed
    /\ IsCacheFresh(fsReq.country_code)
    /\ \E year \in {0, 1} :
          \E h \in Range(NagerHolidays(year, fsReq.country_code)) :
              \A f \in festivals : C12_SameKey(f, h) => f.fetchedAt # NowHour

\* C24: every forecast_demand invocation eventually returns a result, whatever
\* the ML service does: also when a call never answers, and when the service
\* sends success headers and never finishes the response body.
C24_EventuallyReturns == (fcPc \in {"fetching", "readForecast", "readProfit"}) ~> (fcPc = "done")

\* the part of C24 that holds: while Promise.all is pending the timeout bounds
\* the wait, so the call returns or gets both answers' headers (and clears the
\* timeout)
C24_HeadersBounded == (fcPc = "fetching") ~> (fcPc = "done" \/ timeout = "cleared")

\* both answers came with a success status, the timeout is cleared and the
\* handler awaits the body of the forecast answer
C24_Witness ==
    /\ fcPc = "readForecast"
    /\ timeout = "cleared"
    /\ fetchSt = [w \in Fetches |-> "ok"]
    /\ ~ENABLED TimeoutFire

\* the entries a query for the country reads
C25_OfCountry(cache, countryCode) == {f \in cache : f.countryCode = countryCode}

\* C25: refreshing the cache for one country changes neither the entries of
\* another country nor their country code, also when both countries have a
\* holiday of the same name on the same date: no step of a call for one country
\* changes the set of entries of a different country.
C25_OtherCountryUntouched ==
    [][\A c \in {"US", "CA"} :
          c # fsReq.country_code
              => C25_OfCountry(festivals', c) = C25_OfCountry(festivals, c)]_vars

\* a finished refresh for "CA" over a cache that held the "US" holidays: the
\* "US" entries the source lists for "US" alone are still there, and Christmas
\* Day, which both countries have on the same date, is an entry of "CA" only
C25_Witness ==
    /\ fsPc = "done" /\ ~fsResult.isError /\ nagerLog # <<>>
    /\ fsReq.country_code = "CA"
    /\ \E f \in C25_OfCountry(festivals, "US") : f.name = "Columbus Day"
    /\ \E f \in C25_OfCountry(festivals, "CA") : f.name = "Christmas Day"
    /\ \A f \in C25_OfCountry(festivals, "US") : f.name # "Christmas Day"
    /\ NagerHolidays(0, "US")[2] = NagerHolidays(0, "CA")[2]

\* the precondition of C26: no sale of a negative quantity, and thresholds with
\* 0 <= minStock < reorderPoint < maxStock for every configured product
C26_Precondition ==
    /\ \A i \in DOMAIN sales : sales[i].quantity >= 0
    /\ \A p \in DOMAIN products :
          LET inv == products[p].inventory
          IN  0 <= inv.minStockDaily /\ inv.minStockDaily < inv.reorderPoint
                  /\ inv.reorderPoint < inv.maxStockDaily

C27_CompleteSets == {PriorInventory, SeededInventory}

\* C27: while the simulation is run again concurrently with check_inventory
\* requests, every inventory check reads either the complete previous snapshot
\* set or the complete new one, and so never reports a product that has
\* snapshots in both as stock 0 with no date.
C27_CompleteSetObserved ==
    /\ [][chkPc = "latest" /\ chkPc' = "rows" => inventory \in C27_CompleteSets]_vars
    /\ [](chkPc = "done" /\ chkResult.kind = "inventory"
             => \A k \in DOMAIN chkResult.products :
                    chkResult.products[k].product = "Fries"
                        => chkResult.products[k].last_updated # -1)

\* a check that read the store between deleteMany and insertMany and reports
\* Fries, which has snapshots before and after the run, as stock 0, red
C27_Witness ==
    /\ chkPc = "done" /\ chkResult.kind = "inventory"
    /\ seedPc \in {"deleted", "done"}
    /\ \E k \in DOMAIN chkResult.products :
          LET r == chkResult.products[k]
          IN  /\ r.product = "Fries"
              /\ r.stock_level = 0 /\ r.last_updated = -1 /\ r.status = "red"
    /\ \A S \in C27_CompleteSets : \E d \in S : d.product = "Fries"

\* an entry without its fetch timestamp
C28_Fields(f) == [k \in DOMAIN f \ {"fetchedAt"} |-> f[k]]

\* the holidays one refresh for the country fetches
C28_Listed(countryCode) ==
    Range(NagerHolidays(0, countryCode))
        \cup (IF inLastQuarter THEN Range(NagerHolidays(1, countryCode)) ELSE {})

\* the store after a single refresh of `cache` for the country: every listed
\* holiday's entry with the fields the refresh sets, every other entry as it was
C28_SingleRefresh(cache, countryCode) ==
    {f \in cache : \A h \in C28_Listed(countryCode) : ~C12_SameKey(f, h)}
        \cup {[name |-> h.name, date |-> h.date, localName |-> h.localName,
               countryCode |-> countryCode, source |-> "nager-api",
               demandMultiplier |-> ClassifyImpact(h.name).multiplier,
               fetchedAt |-> NowHour] : h \in C28_Listed(countryCode)}

\* both calls have returned, and both had found the cache stale and refreshed it
C28_BothRefreshed ==
    /\ fsPc = "done" /\ fsOther.pc = "done"
    /\ fsReq.country_code = fsOther.req.country_code
    /\ nagerLog # <<>> /\ fsOther.log # <<>>

\* C28: when two get_upcoming_festivals calls for one country run concurrently
\* on a stale cache and both perform the refresh (C28_Witness: they may), both
\* complete without error, and once both have finished the store holds exactly
\* the entries a single refresh would have produced: one per (name, date), with
\* the same field values apart from the fetch timestamp.
C28_ConcurrentRefresh ==
    /\ C13_OnePerKey
    /\ C28_BothRefreshed =>
          /\ ~fsResult.isError /\ ~fsOther.result.isError
          /\ \E cache \in StaleCaches :
                {C28_Fields(f) : f \in festivals}
                    = {C28_Fields(f) : f \in C28_SingleRefresh(cache, fsReq.country_code)}
          /\ \A h \in C28_Listed(fsReq.country_code) :
                Cardinality({f \in festivals : C12_SameKey(f, h)}) = 1

\* both calls refreshed a cache that held older entries and have returned
C28_Witness ==
    /\ C28_BothRefreshed
    /\ fsResult.kind = "festivals" /\ fsOther.result.kind = "festivals"
    /\ nagerLog = fsOther.log
    /\ \E f \in festivals : f.fetchedAt # NowHour
    /\ \E f \in festivals : f.name = "Christmas Day" /\ f.fetchedAt = NowHour

\* the stock level before the day of snapshot d in the series S: the stockLevel
\* of the product's snapshot of the latest earlier day, maxStockDaily before the
\* first day
C29_Before(S, d) ==
    LET earlier == {e \in S : e.product = d.product /\ e.date < d.date}
    IN  IF earlier = {} THEN products[d.product].inventory.maxStockDaily
        ELSE (CHOOSE e \in earlier : \A g \in earlier : g.date <= e.date).stockLevel

\* what the snapshot's stockLevel has above the previous level minus consumed
\* plus restocked
C29_Gap(S, d) == d.stockLevel - (C29_Before(S, d) - d.consumed + d.restocked)

\* the series the simulation has built, and the one it has written
C29_Series == {Range(inventoryDocs), inventory}

\* every sale of the product has a quantity of whole hundredths of a unit
C29_WholeCents(p) ==
    \A i \in DOMAIN sales : sales[i].product = p => sales[i].quantity % 2 = 0

\* C29 as stated: consecutive snapshots of a product conserve stock, stockLevel
\* of day d = stockLevel of day d-1 (maxStockDaily before the first day)
\* - consumed + restocked, and restocked is non-zero only on days whose
\* stockLevel is maxStockDaily.
C29_Conservation ==
    \A S \in C29_Series : \A d \in S :
        /\ C29_Gap(S, d) = 0
        /\ d.restocked # 0 => d.stockLevel = products[d.product].inventory.maxStockDaily

\* C29 (amended): the same up to the rounding of the three written figures to
\* 2 decimals: the two sides differ by at most 0.01, and are equal when the
\* product's quantities are whole hundredths.
C29_ConservationRounded ==
    \A S \in C29_Series : \A d \in S :
        /\ C29_Gap(S, d) \in {-2, 0, 2}
        /\ C29_WholeCents(d.product) => C29_Gap(S, d) = 0
        /\ d.restocked # 0 => d.stockLevel = products[d.product].inventory.maxStockDaily

\* a written series with a day of 10.005 units and no restock, whose three
\* figures are 0.01 apart, and a series with a restock that conserves exactly
C29_Witness ==
    /\ seedPc = "done"
    /\ \E d \in inventory : C29_Gap(inventory, d) # 0 /\ d.restocked = 0
    /\ \E d \in inventory :
          /\ C29_Gap(inventory, d) = 0 /\ d.restocked > 0
          /\ C29_Before(inventory, d) < products[d.product].inventory.maxStockDaily

\* the configured products the finished check covers that have no snapshot
C30_NoSnapshot ==
    {k \in DOMAIN chkResult.products :
        \A d \in inventory : d.product # chkResult.products[k].product}

\* C30: when a configured product has no inventory snapshot at all,
\* check_inventory returns no error and no no-data marker for it: its row has
\* stock_level 0 and last_updated "N/A", the status the thresholds give to a
\* stock of 0 (red whenever minStock > 0), a restock recommendation of maxStock
\* units, and it is counted in the summary and, unless green, in the alerts.
C30_MissingSnapshotRow ==
    chkPc = "done" /\ chkResult.kind = "inventory" =>
        /\ ~chkResult.isError
        /\ Len(chkResult.products) = Len(productDocs)
        /\ chkResult.summary.total_products = Len(chkResult.products)
        /\ \A k \in C30_NoSnapshot :
              LET r == chkResult.products[k]
                  inv == products[r.product].inventory
              IN  /\ DOMAIN r = DOMAIN ProductRow(r.product, <<>>)
                  /\ r.stock_level = 0
                  /\ r.last_updated = -1
                  /\ r.status = C6_Classify(0, inv.minStockDaily, inv.reorderPoint)
                  /\ inv.minStockDaily > 0 => r.status = "red"
                  /\ r.restock_recommendation = inv.maxStockDaily
                  /\ r.status # "green"
                        => \E a \in Range(chkResult.summary.alerts) : a.product = r.product
        /\ chkResult.summary.red + chkResult.summary.yellow + chkResult.summary.green
               = Len(chkResult.products)

\* a finished check of seeded products over an empty Inventory collection, with
\* a red row (minStock > 0) named in the alerts and a row that is not red
C30_Witness ==
    /\ chkPc = "done" /\ chkResult.kind = "inventory"
    /\ inventory = {}
    /\ \E k \in C30_NoSnapshot :
          /\ chkResult.products[k].status = "red"
          /\ products[chkResult.products[k].product].inventory.minStockDaily > 0
    /\ \E k \in C30_NoSnapshot : chkResult.products[k].status # "red"
    /\ chkResult.summary.red >= 1

====
